---- MODULE Spec2Model ----
(***************************************************************************)
(* A model of the gbcemu emulation core (src/src/emulator.rs and the files *)
(* it calls): the frame scheduler (run_frame / run_scanline), the tick      *)
(* (run_tick) with the divider and timer, the CPU slot (interrupt dispatch  *)
(* or one instruction), the delayed interrupt enable, and the OAM and VRAM  *)
(* DMA engines.                                                             *)
(*                                                                          *)
(* The emulator struct is one record, emu; every method of the source that  *)
(* changes it is an operator from records to records, composed in the       *)
(* order the source calls them.  RAM arrays are zero-initialised in the     *)
(* source; they are kept sparse here (a function on the offsets that hold   *)
(* a non-zero byte), which is the same array.                               *)
(***************************************************************************)
EXTENDS Integers, Sequences, FiniteSets, TLC

VARIABLES
    emu,      \* the Emulator struct
    sched,    \* the position of run() / run_frame / run_scanline: their locals
    host,     \* the host side: the command channel and the save file's slots
    prog,     \* the cartridge program: the instruction at each address fetched
    obs       \* history of the run, read only by the properties

vars == <<emu, sched, host, prog, obs>>

\* ------------------------------------------------------------------ bounds

\* Number of CPU slots (instructions or interrupt dispatches) a run explores.
MaxSlots == 5

\* Number of frames a scheduler run explores.
MaxFrames == 2

\* Number of scanlines the runs of the timer and DMA programs explore.
MaxScanlines == 5

\* Number of scanlines the runs of the PPU programs explore: the visible
\* ones and the first two of VBlank.
PpuScanlines == 146

\* ------------------------------------------------------- program constants

NUM_VIRTUAL_SCANLINES == 154
TICKS_PER_FRAME == 70224
TICKS_PER_SCANLINE == TICKS_PER_FRAME \div NUM_VIRTUAL_SCANLINES
SCREEN_HEIGHT == 144
SCREEN_WIDTH == 160
OAM_SCAN_TICKS == 80
DRAW_TICKS == 172
HblankTicksBugOneShort == TICKS_PER_SCANLINE - OAM_SCAN_TICKS - DRAW_TICKS - 1
HBLANK_TICKS == TICKS_PER_SCANLINE - OAM_SCAN_TICKS - DRAW_TICKS
OAM_DMA_TRANSFER_TICKS == 640
VRAM_DMA_TRANSFER_BLOCK_SIZE == 16
VRAM_DMA_TRANSFER_TICKS_PER_BLOCK == 32
OAM_SIZE == 160
INTERRUPT_TICKS == 20

TAC_MASK_16_TICKS == 8
TAC_MASK_64_TICKS == 32
TAC_MASK_256_TICKS == 128
TAC_MASK_1024_TICKS == 512

\* --------------------------------------------------------------- bit tools

Bit(v, n) == (v \div (2 ^ n)) % 2

IsBitSet(v, n) == Bit(v, n) = 1

\* a & b
RECURSIVE BitAnd(_, _)
BitAnd(a, b) ==
    IF a = 0 \/ b = 0 THEN 0
    ELSE (a % 2) * (b % 2) + 2 * BitAnd(a \div 2, b \div 2)

\* a | b on 16-bit values
BitOr(a, b) == a + b - BitAnd(a, b)

\* a & !b on 16-bit values
BitAndNot(a, b) == a - BitAnd(a, b)

WrapU16(v) == v % 65536

\* ---------------------------------------------------------------- memory

\* A zero-initialised byte array, kept as the function of its non-zero bytes.
EmptyRam == [x \in {} |-> 0]

Get(m, k) == IF k \in DOMAIN m THEN m[k] ELSE 0

Put(m, k, v) ==
    IF v = 0
    THEN [x \in DOMAIN m \ {k} |-> m[x]]
    ELSE [x \in DOMAIN m \cup {k} |-> IF x = k THEN v ELSE m[x]]

\* The cartridge ROM is an input that never changes: one fixed image.
RomByte(a) == (a * 7 + 3) % 256

ROM_END == 32768
VRAM_START == 32768
VRAM_END == 40960
EXTERNAL_RAM_START == 40960
EXTERNAL_RAM_END == 49152
FIRST_WORK_RAM_BANK_START == 49152
FIRST_WORK_RAM_BANK_END == 53248
SECOND_WORK_RAM_BANK_START == 53248
SECOND_WORK_RAM_BANK_END == 57344
ECHO_RAM_END == 65024
OAM_START == 65024
OAM_END == 65184
UNUSABLE_SPACE_END == 65280
IO_REGISTERS_END == 65408
HRAM_START == 65408
HRAM_END == 65535
IE_ADDRESS == 65535
SINGLE_VRAM_BANK_SIZE == 8192
SINGLE_WORK_RAM_BANK_SIZE == 4096

\* ----------------------------------------------------------- IO registers

REG_DIV == 65284
REG_TIMA == 65285
REG_TMA == 65286
REG_TAC == 65287
REG_IF == 65295
REG_NR11 == 65297
REG_NR21 == 65302
REG_LCDC == 65344
REG_STAT == 65345
REG_LY == 65348
REG_LYC == 65349
REG_DMA == 65350
REG_KEY0 == 65356
REG_KEY1 == 65357
REG_VBK == 65359
REG_BANK == 65360
REG_HDMA1 == 65361
REG_HDMA2 == 65362
REG_HDMA3 == 65363
REG_HDMA4 == 65364
REG_HDMA5 == 65365
REG_WY == 65354
REG_WX == 65355
REG_BCPS == 65384
REG_BCPD == 65385
REG_OCPS == 65386
REG_OCPD == 65387
REG_OPRI == 65388
REG_WBK == 65392

\* The registers of define_registers! that the model keeps, with their
\* initial bytes (DMG column, CGB column).
IoInit ==
    [r \in (REG_NR11..(REG_NR11 + 3)) \cup (REG_NR21..(REG_NR21 + 3)) \cup
           {REG_TIMA, REG_TMA, REG_TAC, REG_IF, REG_LCDC, REG_STAT, REG_LYC,
            REG_DMA, REG_KEY0, REG_KEY1, REG_VBK, REG_BANK, REG_HDMA1, REG_HDMA2,
            REG_HDMA3, REG_HDMA4, REG_HDMA5, REG_OPRI, REG_WBK, REG_WY,
            REG_WX, REG_BCPS, REG_OCPS} |->
        CASE r = REG_TIMA -> <<0, 0>>
          [] r = REG_TMA -> <<0, 0>>
          [] r = REG_TAC -> <<248, 248>>
          [] r = REG_IF -> <<225, 225>>
          [] r = REG_LCDC -> <<145, 145>>
          [] r = REG_STAT -> <<133, 255>>
          [] r = REG_LYC -> <<0, 0>>
          [] r = REG_DMA -> <<255, 0>>
          [] r = REG_KEY0 -> <<255, 255>>
          [] r = REG_KEY1 -> <<255, 255>>
          [] r = REG_VBK -> <<255, 254>>
          [] r = REG_BANK -> <<255, 255>>
          [] r = REG_HDMA1 -> <<255, 255>>
          [] r = REG_HDMA2 -> <<255, 255>>
          [] r = REG_HDMA3 -> <<255, 255>>
          [] r = REG_HDMA4 -> <<255, 255>>
          [] r = REG_HDMA5 -> <<255, 255>>
          [] r = REG_BCPS -> <<255, 255>>
          [] r = REG_OCPS -> <<255, 255>>
          [] r = REG_OPRI -> <<255, 0>>
          [] r = REG_WY -> <<255, 0>>
          [] r = REG_WX -> <<255, 0>>
          [] r = REG_WBK -> <<255, 248>>
          [] r = REG_NR11 -> <<191, 191>>
          [] r = REG_NR11 + 1 -> <<243, 243>>
          [] r = REG_NR11 + 2 -> <<255, 255>>
          [] r = REG_NR11 + 3 -> <<191, 191>>
          [] r = REG_NR21 -> <<63, 63>>
          [] r = REG_NR21 + 1 -> <<0, 0>>
          [] r = REG_NR21 + 2 -> <<255, 255>>
          [] r = REG_NR21 + 3 -> <<191, 191>>]

IoRegistersInit(machine) ==
    [r \in DOMAIN IoInit |-> IoInit[r][IF machine = "Dmg" THEN 1 ELSE 2]]

\* ------------------------------------------------------------ option types

\* WindowLineCounter::new
WindowLineCounterNew == [line |-> 0, last_updated_scanline |-> <<>>]

NoOamDma == [some |-> FALSE, source_address |-> 0, ticks_remaining |-> 0]

NoHblankDma ==
    [some |-> FALSE, source |-> 0, dest |-> 0, in_block |-> FALSE,
     remaining_ticks_in_current_hblank |-> 0, num_blocks_left |-> 0,
     total_num_blocks |-> 0]

NoGpDma == [some |-> FALSE, ticks |-> 0]

NoSpeedSwitch == [some |-> FALSE, ticks |-> 0]

\* A panic!, unreachable! or failed assertion of the source: the emulator
\* thread aborts and nothing runs afterwards.
Panic(e) == [e EXCEPT !.panicked = TRUE]

\* ------------------------------------------------------------- interrupts

FLAG_VBLANK == 1
FLAG_LCD_STAT == 2
FLAG_TIMER == 4
FLAG_SERIAL == 8
FLAG_JOYPAD == 16

\* the raw byte of a register the model keeps
IoRaw(e, a) == e.io[a]

WriteRaw(e, a, v) ==
    IF a \in DOMAIN e.io THEN [e EXCEPT !.io[a] = v] ELSE e

IfReg(e) == IoRaw(e, REG_IF)

\* v & (2^n - 1)
LowBits(v, n) == v % (2 ^ n)

\* 0xE0 | (0x1F & value)
WriteIfImpl(e, value) == [e EXCEPT !.io[REG_IF] = 224 + LowBits(value, 5)]

RequestInterrupt(e, flag_bit) == WriteIfImpl(e, BitOr(IfReg(e), flag_bit))

\* ie & if & 0x1F
InterruptBits(e) == BitAnd(LowBits(e.ie, 5), LowBits(IfReg(e), 5))

\* Interrupt::for_bits followed by flag_bit
ForBitsBugLowestLast(bits) ==
    IF IsBitSet(bits, 4) THEN FLAG_JOYPAD
    ELSE IF IsBitSet(bits, 3) THEN FLAG_SERIAL
    ELSE IF IsBitSet(bits, 2) THEN FLAG_TIMER
    ELSE IF IsBitSet(bits, 1) THEN FLAG_LCD_STAT
    ELSE FLAG_VBLANK

ForBits(bits) ==
    IF IsBitSet(bits, 0) THEN FLAG_VBLANK
    ELSE IF IsBitSet(bits, 1) THEN FLAG_LCD_STAT
    ELSE IF IsBitSet(bits, 2) THEN FLAG_TIMER
    ELSE IF IsBitSet(bits, 3) THEN FLAG_SERIAL
    ELSE FLAG_JOYPAD

HandlerAddress(flag_bit) ==
    CASE flag_bit = FLAG_VBLANK -> 64
      [] flag_bit = FLAG_LCD_STAT -> 72
      [] flag_bit = FLAG_TIMER -> 80
      [] flag_bit = FLAG_SERIAL -> 88
      [] flag_bit = FLAG_JOYPAD -> 96

\* ------------------------------------------------------------ address map

PhysicalVramBankAddress(e, addr) ==
    (addr - VRAM_START)
        + (IF e.in_cgb_mode THEN BitAnd(IoRaw(e, REG_VBK), 1) ELSE 0)
            * SINGLE_VRAM_BANK_SIZE

SecondWramBankNum(e) ==
    IF e.in_cgb_mode
    THEN (IF BitAnd(IoRaw(e, REG_WBK), 7) = 0 THEN 1
          ELSE BitAnd(IoRaw(e, REG_WBK), 7))
    ELSE 1

PhysicalSecondWorkRamBankAddress(e, addr) ==
    (addr - SECOND_WORK_RAM_BANK_START)
        + SINGLE_WORK_RAM_BANK_SIZE * SecondWramBankNum(e)

TacBits(e) ==
    CASE e.tac_mask = TAC_MASK_1024_TICKS -> 0
      [] e.tac_mask = TAC_MASK_16_TICKS -> 1
      [] e.tac_mask = TAC_MASK_64_TICKS -> 2
      [] e.tac_mask = TAC_MASK_256_TICKS -> 3

\* set_tac_bits with the 64-tick and 256-tick masks exchanged
TacMaskForBugSwapped(tac_bits) ==
    CASE tac_bits % 4 = 0 -> TAC_MASK_1024_TICKS
      [] tac_bits % 4 = 1 -> TAC_MASK_16_TICKS
      [] tac_bits % 4 = 2 -> TAC_MASK_256_TICKS
      [] tac_bits % 4 = 3 -> TAC_MASK_64_TICKS

TacMaskFor(tac_bits) ==
    CASE tac_bits % 4 = 0 -> TAC_MASK_1024_TICKS
      [] tac_bits % 4 = 1 -> TAC_MASK_16_TICKS
      [] tac_bits % 4 = 2 -> TAC_MASK_64_TICKS
      [] tac_bits % 4 = 3 -> TAC_MASK_256_TICKS

ModeByteValue(mode) ==
    CASE mode = "HBlank" -> 0
      [] mode = "VBlank" -> 1
      [] mode = "OamScan" -> 2
      [] mode = "Draw" -> 3

\* can_access_vram: VRAM and the CGB palette data
CanAccessVram(e) == e.mode # "Draw" \/ ~IsBitSet(IoRaw(e, REG_LCDC), 7)

\* cgb_pallette_address: the low 6 bits of BCPS and OCPS
CgbPaletteAddress(reg) == BitAnd(reg, 63)

\* cgb_pallete_auto_increment: bit 7 of BCPS and OCPS
CgbPaletteAutoIncrement(reg) == IsBitSet(reg, 7)

\* The palette arrays are kept as the functions of the bytes written: a
\* byte never written is the initial one, 0xFF in cgb_background_palettes
\* and 0x00 in cgb_object_palettes.
BackgroundPaletteByte(e, k) ==
    IF k \in DOMAIN e.cgb_background_palettes
    THEN e.cgb_background_palettes[k] ELSE 255

ObjectPaletteByte(e, k) ==
    IF k \in DOMAIN e.cgb_object_palettes
    THEN e.cgb_object_palettes[k] ELSE 0

\* read_bcpd_impl: the failed-read value when can_access_vram() is true
ReadBcpdImpl(e) ==
    IF CanAccessVram(e) THEN 255
    ELSE BackgroundPaletteByte(e, CgbPaletteAddress(IoRaw(e, REG_BCPS)))

\* read_ocpd_impl
ReadOcpdImpl(e) ==
    IF CanAccessVram(e) THEN 255
    ELSE ObjectPaletteByte(e, CgbPaletteAddress(IoRaw(e, REG_OCPS)))

\* write_bcpd_impl
WriteBcpdImpl(e, value) ==
    LET bcps == IoRaw(e, REG_BCPS)
        address == CgbPaletteAddress(bcps)
        e1 == IF CanAccessVram(e)
              THEN [e EXCEPT !.cgb_background_palettes =
                                (address :> value) @@ @]
              ELSE e
    IN  IF CgbPaletteAutoIncrement(bcps)
        THEN WriteRaw(e1, REG_BCPS, BitOr(BitAnd(bcps, 128), address + 1))
        ELSE e1

\* write_ocpd_impl
WriteOcpdImpl(e, value) ==
    LET ocps == IoRaw(e, REG_OCPS)
        address == CgbPaletteAddress(ocps)
        e1 == IF CanAccessVram(e)
              THEN [e EXCEPT !.cgb_object_palettes =
                                (address :> value) @@ @]
              ELSE e
    IN  IF CgbPaletteAutoIncrement(ocps)
        THEN WriteRaw(e1, REG_OCPS, BitOr(BitAnd(ocps, 128), address + 1))
        ELSE e1

ReadLcdStatImpl(e) ==
    BitOr(BitOr(128, BitOr(IoRaw(e, REG_STAT), 120)),
          BitOr(IF e.scanline = IoRaw(e, REG_LYC) THEN 4 ELSE 0,
                ModeByteValue(e.mode)))

ReadKey1Impl(e) ==
    IF e.is_double_speed THEN BitOr(IoRaw(e, REG_KEY1), 128)
    ELSE IoRaw(e, REG_KEY1)

ReadIoRegister(e, addr) ==
    CASE addr = REG_DIV -> e.full_divider_register \div 256
      [] addr = REG_TAC -> TacBits(e) + (IF e.is_timer_enabled THEN 4 ELSE 0)
      [] addr = REG_STAT -> ReadLcdStatImpl(e)
      [] addr = REG_LY -> e.scanline
      [] addr = REG_KEY1 -> ReadKey1Impl(e)
      [] addr = REG_BCPD -> ReadBcpdImpl(e)
      [] addr = REG_OCPD -> ReadOcpdImpl(e)
      [] OTHER -> IF addr \in DOMAIN e.io THEN IoRaw(e, addr) ELSE 255

\* ------------------------------------------------------------------ APU
\* audio.rs: the four channels and the DIV-APU sequencer.  The analog side
\* (mixing, volume, high-pass filter, wave RAM samples) is left out.

DUTY_WAVEFORM_LENGTH == 8

DUTY_CYCLE_WAVEFORMS ==
    <<  <<1, 1, 1, 1, 1, 1, 1, 0>>,
        <<0, 1, 1, 1, 1, 1, 1, 0>>,
        <<0, 1, 1, 1, 1, 0, 0, 0>>,
        <<1, 0, 0, 0, 0, 0, 0, 1>>  >>

PULSE_MAX_LENGTH_TIMER == 64

\* the number of SYSTEM_VOLUME_LEVELS and the level the APU starts at
NUM_SYSTEM_VOLUME_LEVELS == 8
DEFAULT_SYSTEM_VOLUME_INDEX == 5
WAVE_MAX_LENGTH_TIMER == 256
NUM_CUSTOM_WAVE_SAMPLES == 32

\* PulseChannel::new
PulseNew(has_sweep) ==
    [duty_cycle |-> 0, duty_sample_index |-> 0,
     period_timer |-> 0, period_register |-> 0,
     is_length_timer_enabled |-> FALSE, length_timer |-> 0,
     is_envelope_up |-> FALSE, envelope_sweep_pace |-> 0, envelope_timer |-> 0,
     initial_volume |-> 0, volume |-> 0,
     is_enabled |-> FALSE, is_dac_enabled |-> FALSE,
     has_sweep |-> has_sweep, is_sweep_enabled |-> FALSE, is_sweep_up |-> FALSE,
     sweep_step |-> 0, sweep_pace |-> 0, sweep_timer |-> 0,
     shadow_period_register |-> 0]

\* WaveChannel::new
WaveNew ==
    [is_enabled |-> FALSE, is_dac_enabled |-> FALSE, volume |-> 0,
     wave_sample_index |-> 0, period_timer |-> 0, period_register |-> 0,
     is_length_timer_enabled |-> FALSE, length_timer |-> 0]

\* NoiseChannel::new
NoiseNew ==
    [is_enabled |-> FALSE, is_dac_enabled |-> FALSE,
     is_lfsr_wide |-> FALSE, lfsr |-> 0, current_sample_bit |-> FALSE,
     clock_shift |-> 0, clock_divider |-> 0, clock_timer |-> 0,
     is_length_timer_enabled |-> FALSE, length_timer |-> 0,
     is_envelope_up |-> FALSE, envelope_sweep_pace |-> 0, envelope_timer |-> 0,
     initial_volume |-> 0, volume |-> 0]

\* initial_period_timer of the pulse and wave channels
InitialPeriodTimer(c) == 2048 - c.period_register

\* initial_sweep_timer: a pace of 0 is treated as 8
InitialSweepTimer(c) == IF c.sweep_pace = 0 THEN 8 ELSE c.sweep_pace

\* calculate_next_sweep_period
CalculateNextSweepPeriod(c) ==
    LET sweep_adjustment == c.shadow_period_register \div (2 ^ c.sweep_step)
    IN  IF c.is_sweep_up
        THEN c.shadow_period_register + sweep_adjustment
        ELSE c.shadow_period_register - sweep_adjustment

IsSweepPeriodOutOfBounds(period) == period > 2047

\* trigger_sweep_timer
TriggerSweepTimer(c) ==
    LET c1 == [c EXCEPT !.sweep_timer = InitialSweepTimer(c),
                        !.shadow_period_register = c.period_register,
                        !.is_sweep_enabled =
                            (c.sweep_pace # 0 \/ c.sweep_step # 0)]
    IN  IF c1.sweep_step # 0
           /\ IsSweepPeriodOutOfBounds(CalculateNextSweepPeriod(c1))
        THEN [c1 EXCEPT !.is_enabled = FALSE]
        ELSE c1

\* advance_sweep_timer
AdvanceSweepTimer(c) ==
    IF ~c.has_sweep \/ ~c.is_sweep_enabled \/ c.sweep_pace = 0 THEN c
    ELSE LET c1 == [c EXCEPT !.sweep_timer = IF @ > 0 THEN @ - 1 ELSE @]
         IN  IF c1.sweep_timer # 0 THEN c1
             ELSE LET c2 == [c1 EXCEPT !.sweep_timer = InitialSweepTimer(c1)]
                      new_sweep_period == CalculateNextSweepPeriod(c2)
                      c3 == [c2 EXCEPT
                                !.shadow_period_register = new_sweep_period,
                                !.period_register = new_sweep_period]
                  IN  IF IsSweepPeriodOutOfBounds(new_sweep_period)
                      THEN [c2 EXCEPT !.is_enabled = FALSE]
                      ELSE IF IsSweepPeriodOutOfBounds(
                                CalculateNextSweepPeriod(c3))
                          THEN [c3 EXCEPT !.is_enabled = FALSE]
                      ELSE c3

\* PulseChannel::trigger, enabling the channel whatever the DAC
PulseTriggerBugIgnoresDac(c) ==
    LET c1 == [c EXCEPT
                !.is_enabled = TRUE,
                !.period_timer = InitialPeriodTimer(c),
                !.volume = c.initial_volume,
                !.length_timer = IF @ = 0 THEN PULSE_MAX_LENGTH_TIMER ELSE @,
                !.envelope_timer =
                    IF c.envelope_sweep_pace # 0
                    THEN c.envelope_sweep_pace ELSE @]
    IN  IF c.has_sweep THEN TriggerSweepTimer(c1) ELSE c1

\* PulseChannel::trigger
PulseTrigger(c) ==
    LET c1 == [c EXCEPT
                !.is_enabled = IF c.is_dac_enabled THEN TRUE ELSE @,
                !.period_timer = InitialPeriodTimer(c),
                !.volume = c.initial_volume,
                !.length_timer = IF @ = 0 THEN PULSE_MAX_LENGTH_TIMER ELSE @,
                !.envelope_timer =
                    IF c.envelope_sweep_pace # 0
                    THEN c.envelope_sweep_pace ELSE @]
    IN  IF c.has_sweep THEN TriggerSweepTimer(c1) ELSE c1

\* write_nrx2 of the pulse channels and write_nr42 of the noise channel
WriteNrx2(c, value) ==
    LET initial_volume == BitAnd(value, 240) \div 16
        is_envelope_up == BitAnd(value, 8) # 0
        is_dac_enabled == initial_volume # 0 \/ is_envelope_up
    IN  [c EXCEPT !.initial_volume = initial_volume,
                  !.is_envelope_up = is_envelope_up,
                  !.envelope_sweep_pace = BitAnd(value, 7),
                  !.is_dac_enabled = is_dac_enabled,
                  !.is_enabled = IF is_dac_enabled THEN @ ELSE FALSE]

\* PulseChannel::write_nrx0 .. write_nrx4, by register number
PulseWrite(c, reg, value) ==
    CASE reg = 0 ->
            [c EXCEPT !.sweep_step = BitAnd(value, 7),
                      !.is_sweep_up = (BitAnd(value, 8) = 0),
                      !.sweep_pace = BitAnd(value, 112) \div 16]
      [] reg = 1 ->
            [c EXCEPT !.duty_cycle = BitAnd(value, 192) \div 64,
                      !.length_timer =
                          PULSE_MAX_LENGTH_TIMER - BitAnd(value, 63)]
      [] reg = 2 -> WriteNrx2(c, value)
      [] reg = 3 ->
            [c EXCEPT !.period_register = BitAnd(@, 1792) + value]
      [] OTHER ->
            LET c1 == [c EXCEPT
                        !.period_register =
                            BitAnd(@, 255) + BitAnd(value, 7) * 256,
                        !.is_length_timer_enabled = (BitAnd(value, 64) # 0)]
            IN  IF BitAnd(value, 128) # 0 THEN PulseTrigger(c1) ELSE c1

\* PulseChannel::sample_digital
PulseSampleDigital(c) ==
    IF ~c.is_enabled THEN 0
    ELSE DUTY_CYCLE_WAVEFORMS[c.duty_cycle + 1][c.duty_sample_index + 1]
            * c.volume

\* advance_period_timer without the decrement that follows the reload
PulseAdvancePeriodTimerBugNoDecrement(c) ==
    IF c.period_timer = 0
    THEN [c EXCEPT !.duty_sample_index = (@ + 1) % DUTY_WAVEFORM_LENGTH,
                   !.period_timer = InitialPeriodTimer(c)]
    ELSE [c EXCEPT !.period_timer = @ - 1]

\* PulseChannel::advance_period_timer
PulseAdvancePeriodTimer(c) ==
    IF c.period_timer = 0
    THEN [c EXCEPT !.duty_sample_index = (@ + 1) % DUTY_WAVEFORM_LENGTH,
                   !.period_timer = InitialPeriodTimer(c) - 1]
    ELSE [c EXCEPT !.period_timer = @ - 1]

\* advance_length_timer with the length-enable bit not looked at
AdvanceLengthTimerBugAlways(c) ==
    IF c.length_timer > 0
    THEN [c EXCEPT !.length_timer = @ - 1,
                   !.is_enabled = IF c.length_timer = 1 THEN FALSE ELSE @]
    ELSE c

\* advance_length_timer, the same code in the pulse, wave and noise channels
AdvanceLengthTimer(c) ==
    IF c.is_length_timer_enabled /\ c.length_timer > 0
    THEN [c EXCEPT !.length_timer = @ - 1,
                   !.is_enabled = IF c.length_timer = 1 THEN FALSE ELSE @]
    ELSE c

\* advance_envelope_timer, the same code in the pulse and noise channels
AdvanceEnvelopeTimer(c) ==
    IF c.envelope_sweep_pace = 0 THEN c
    ELSE LET t == IF c.envelope_timer > 0
                  THEN c.envelope_timer - 1 ELSE c.envelope_timer
         IN  IF t # 0 THEN [c EXCEPT !.envelope_timer = t]
             ELSE [c EXCEPT
                    !.envelope_timer = c.envelope_sweep_pace,
                    !.volume =
                        IF c.is_envelope_up /\ @ < 15 THEN @ + 1
                        ELSE IF ~c.is_envelope_up /\ @ > 0 THEN @ - 1
                        ELSE @]

\* WaveChannel::trigger
WaveTrigger(c) ==
    [c EXCEPT !.is_enabled = IF c.is_dac_enabled THEN TRUE ELSE @,
              !.period_timer = InitialPeriodTimer(c),
              !.wave_sample_index = 0,
              !.length_timer = IF @ = 0 THEN WAVE_MAX_LENGTH_TIMER ELSE @]

\* WaveChannel::write_nr30 .. write_nr34, by register number
WaveWrite(c, reg, value) ==
    CASE reg = 0 ->
            [c EXCEPT !.is_dac_enabled = (BitAnd(value, 128) # 0),
                      !.is_enabled = IF BitAnd(value, 128) # 0 THEN @ ELSE FALSE]
      [] reg = 1 -> [c EXCEPT !.length_timer = WAVE_MAX_LENGTH_TIMER - value]
      [] reg = 2 -> [c EXCEPT !.volume = BitAnd(value, 96) \div 32]
      [] reg = 3 ->
            [c EXCEPT !.period_register = BitAnd(@, 1792) + value]
      [] OTHER ->
            LET c1 == [c EXCEPT
                        !.period_register =
                            BitAnd(@, 255) + BitAnd(value, 7) * 256,
                        !.is_length_timer_enabled = (BitAnd(value, 64) # 0)]
            IN  IF BitAnd(value, 128) # 0 THEN WaveTrigger(c1) ELSE c1

\* WaveChannel::advance_period_timer
WaveAdvancePeriodTimer(c) ==
    IF c.period_timer = 0
    THEN [c EXCEPT !.wave_sample_index = (@ + 1) % NUM_CUSTOM_WAVE_SAMPLES,
                   !.period_timer = InitialPeriodTimer(c) - 1]
    ELSE [c EXCEPT !.period_timer = @ - 1]

\* NoiseChannel::initial_clock_timer: u16 shifts, bits shifted out are lost
InitialClockTimer(c) ==
    IF c.clock_divider = 0
    THEN (2 ^ c.clock_shift) % 65536
    ELSE ((c.clock_divider * 2) * (2 ^ c.clock_shift)) % 65536

\* NoiseChannel::trigger
NoiseTrigger(c) ==
    [c EXCEPT !.is_enabled = IF c.is_dac_enabled THEN TRUE ELSE @,
              !.clock_timer = InitialClockTimer(c),
              !.volume = c.initial_volume,
              !.lfsr = 0,
              !.length_timer = IF @ = 0 THEN PULSE_MAX_LENGTH_TIMER ELSE @,
              !.envelope_timer =
                  IF c.envelope_sweep_pace # 0
                  THEN c.envelope_sweep_pace ELSE @]

\* NoiseChannel::write_nr41 .. write_nr44, by register number
NoiseWrite(c, reg, value) ==
    CASE reg = 1 ->
            [c EXCEPT !.length_timer =
                          PULSE_MAX_LENGTH_TIMER - BitAnd(value, 63)]
      [] reg = 2 -> WriteNrx2(c, value)
      [] reg = 3 ->
            [c EXCEPT !.clock_divider = BitAnd(value, 7),
                      !.is_lfsr_wide = (BitAnd(value, 8) = 0),
                      !.clock_shift = BitAnd(value, 240) \div 16]
      [] OTHER ->
            LET c1 == [c EXCEPT
                        !.is_length_timer_enabled = (BitAnd(value, 64) # 0)]
            IN  IF BitAnd(value, 128) # 0 THEN NoiseTrigger(c1) ELSE c1

\* the LFSR is clocked by this call of advance_period_timer
NoiseClocked(c) == c.clock_shift < 14 /\ c.clock_timer = 0

\* clock_timer -= 1 on a timer reloaded with 0: an overflow of the u16
NoiseClockTimerUnderflows(c) == NoiseClocked(c) /\ InitialClockTimer(c) = 0

\* NoiseChannel::advance_period_timer, the subtraction wrapping around
NoiseAdvancePeriodTimer(c) ==
    IF c.clock_shift >= 14 THEN c
    ELSE IF c.clock_timer = 0
        THEN LET new_bit == IF c.lfsr % 2 = (c.lfsr \div 2) % 2 THEN 1 ELSE 0
                 lfsr == IF c.is_lfsr_wide
                         THEN ((c.lfsr % 32768) + new_bit * 32768) \div 2
                         ELSE ((c.lfsr % 128) + new_bit * 128) \div 2
             IN  [c EXCEPT !.lfsr = lfsr,
                           !.current_sample_bit = (lfsr % 2 # 0),
                           !.clock_timer =
                               (InitialClockTimer(c) + 65535) % 65536]
    ELSE [c EXCEPT !.clock_timer = @ - 1]

\* Apu::new
ApuNew ==
    [channel_1 |-> PulseNew(TRUE), channel_2 |-> PulseNew(FALSE),
     channel_3 |-> WaveNew, channel_4 |-> NoiseNew,
     div_apu |-> 0, is_on |-> TRUE,
     system_volume_index |-> DEFAULT_SYSTEM_VOLUME_INDEX, is_muted |-> FALSE]

\* advance_div_apu advancing the length timers on every increment
AdvanceDivApuBugLengthEveryIncrement(a) ==
    LET old_div_apu == a.div_apu
        div_apu == (old_div_apu + 1) % 256
        falling_edges == BitAndNot(old_div_apu, div_apu)
        a1 == IF TRUE
              THEN [a EXCEPT
                        !.channel_1 = AdvanceLengthTimer(@),
                        !.channel_2 = AdvanceLengthTimer(@),
                        !.channel_3 = AdvanceLengthTimer(@),
                        !.channel_4 = AdvanceLengthTimer(@)]
              ELSE a
        a2 == IF BitAnd(falling_edges, 2) # 0
              THEN [a1 EXCEPT !.channel_1 = AdvanceSweepTimer(@)]
              ELSE a1
        a3 == IF BitAnd(falling_edges, 4) # 0
              THEN [a2 EXCEPT
                        !.channel_1 = AdvanceEnvelopeTimer(@),
                        !.channel_2 = AdvanceEnvelopeTimer(@),
                        !.channel_4 = AdvanceEnvelopeTimer(@)]
              ELSE a2
    IN  [a3 EXCEPT !.div_apu = div_apu]

\* Apu::advance_div_apu: the falling edges of bits 0, 1 and 2 of DIV-APU
AdvanceDivApu(a) ==
    LET old_div_apu == a.div_apu
        div_apu == (old_div_apu + 1) % 256
        falling_edges == BitAndNot(old_div_apu, div_apu)
        a1 == IF BitAnd(falling_edges, 1) # 0
              THEN [a EXCEPT
                        !.channel_1 = AdvanceLengthTimer(@),
                        !.channel_2 = AdvanceLengthTimer(@),
                        !.channel_3 = AdvanceLengthTimer(@),
                        !.channel_4 = AdvanceLengthTimer(@)]
              ELSE a
        a2 == IF BitAnd(falling_edges, 2) # 0
              THEN [a1 EXCEPT !.channel_1 = AdvanceSweepTimer(@)]
              ELSE a1
        a3 == IF BitAnd(falling_edges, 4) # 0
              THEN [a2 EXCEPT
                        !.channel_1 = AdvanceEnvelopeTimer(@),
                        !.channel_2 = AdvanceEnvelopeTimer(@),
                        !.channel_4 = AdvanceEnvelopeTimer(@)]
              ELSE a2
    IN  [a3 EXCEPT !.div_apu = div_apu]

\* Apu::advance_period_timers
AdvancePeriodTimers(a, tick_number) ==
    LET a1 == IF tick_number % 4 = 0
              THEN [a EXCEPT !.channel_1 = PulseAdvancePeriodTimer(@),
                             !.channel_2 = PulseAdvancePeriodTimer(@)]
              ELSE a
        a2 == IF tick_number % 2 = 0
              THEN [a1 EXCEPT !.channel_3 = WaveAdvancePeriodTimer(@)]
              ELSE a1
    IN  IF tick_number % 8 = 0
        THEN [a2 EXCEPT !.channel_4 = NoiseAdvancePeriodTimer(@)]
        ELSE a2

\* the APU part of run_tick: advance_period_timers(self.tick); the underflow
\* of the noise clock timer panics in a build with overflow checks
AdvanceApuPeriodTimers(e) ==
    IF e.tick % 8 = 0 /\ NoiseClockTimerUnderflows(e.apu.channel_4)
       /\ e.overflow_checks
    THEN Panic(e)
    ELSE [e EXCEPT !.apu = AdvancePeriodTimers(e.apu, e.tick)]

\* ------------------------------------------------- cartridge and its MBC
\* address_space.rs: the two ROM windows and the bank sizes
FIRST_ROM_BANK_END == 16384
ROM_BANK_SIZE == 16384
SINGLE_EXTERNAL_RAM_BANK_SIZE == 8192

\* Location: a register handle of the MBC or a physical offset
LocRegister(reg) == [is_reg |-> TRUE, reg |-> reg, addr |-> 0]
LocAddress(a) == [is_reg |-> FALSE, reg |-> "", addr |-> a]

NoMbc == [kind |-> "None"]

\* Mbc1::new
Mbc1New ==
    [kind |-> "Mbc1",
     is_ram_enabled |-> FALSE,
     rom_bank_num |-> 1,
     ram_bank_num_or_upper_bits |-> 0,
     is_advanced_banking_mode |-> FALSE]

\* Mbc3::new
Mbc3New ==
    [kind |-> "Mbc3",
     is_ram_rtc_enabled |-> FALSE,
     rom_bank_num |-> 1,
     ram_rtc_mapping |-> [rtc |-> FALSE, v |-> 0],
     latched_clock_time |-> [some |-> FALSE, secs |-> 0],
     last_latched_write |-> [some |-> FALSE, v |-> 0]]

Mbc1FirstRomBankNumber(m) ==
    IF m.is_advanced_banking_mode
    THEN m.ram_bank_num_or_upper_bits * 32
    ELSE 0

Mbc1SecondRomBankNumber(m) ==
    m.rom_bank_num + m.ram_bank_num_or_upper_bits * 32

Mbc1RamBankNumber(m) ==
    IF m.is_advanced_banking_mode THEN m.ram_bank_num_or_upper_bits ELSE 0

PhysicalFirstRomBankAddress(bank_num, addr) == bank_num * ROM_BANK_SIZE + addr

PhysicalSecondRomBankAddress(bank_num, addr) ==
    PhysicalFirstRomBankAddress(bank_num - 1, addr)

PhysicalRamBankAddress(bank_num, addr) ==
    bank_num * SINGLE_EXTERNAL_RAM_BANK_SIZE + (addr - EXTERNAL_RAM_START)

Mbc1MapReadRomAddress(m, addr) ==
    IF addr < FIRST_ROM_BANK_END
    THEN PhysicalFirstRomBankAddress(Mbc1FirstRomBankNumber(m), addr)
    ELSE PhysicalSecondRomBankAddress(Mbc1SecondRomBankNumber(m), addr)

Mbc1MapWriteRomAddress(addr) ==
    IF addr < 8192 THEN LocRegister("RAM_ENABLE_REGISTER")
    ELSE IF addr < 16384 THEN LocRegister("ROM_BANK_NUMBER_REGISTER")
    ELSE IF addr < 24576
        THEN LocRegister("RAM_BANK_NUMBER_OR_UPPER_BITS_REGISTER")
    ELSE LocRegister("BANKING_MODE_SELECT_REGISTER")

Mbc1MapRamAddress(m, addr) ==
    IF ~m.is_ram_enabled
    THEN LocRegister("UNITIALIZED_RAM_VALUE_REGISTER")
    ELSE LocAddress(PhysicalRamBankAddress(Mbc1RamBankNumber(m), addr))

\* Mbc1::write_register with the remap of bank 0 left out
Mbc1WriteRegisterBugNoRemap(m, register, value) ==
    CASE register = "RAM_ENABLE_REGISTER" ->
            [m EXCEPT !.is_ram_enabled = (BitAnd(value, 15) = 10)]
      [] register = "ROM_BANK_NUMBER_REGISTER" ->
            [m EXCEPT !.rom_bank_num = BitAnd(value, 31)]
      [] register = "RAM_BANK_NUMBER_OR_UPPER_BITS_REGISTER" ->
            [m EXCEPT !.ram_bank_num_or_upper_bits = BitAnd(value, 3)]
      [] register = "BANKING_MODE_SELECT_REGISTER" ->
            [m EXCEPT !.is_advanced_banking_mode = (BitAnd(value, 1) # 0)]
      [] OTHER -> m

\* Mbc1::write_register
Mbc1WriteRegister(m, register, value) ==
    CASE register = "RAM_ENABLE_REGISTER" ->
            [m EXCEPT !.is_ram_enabled = (BitAnd(value, 15) = 10)]
      [] register = "ROM_BANK_NUMBER_REGISTER" ->
            LET bank_num == BitAnd(value, 31)
            IN  [m EXCEPT !.rom_bank_num =
                    IF bank_num = 0 THEN 1 ELSE bank_num]
      [] register = "RAM_BANK_NUMBER_OR_UPPER_BITS_REGISTER" ->
            [m EXCEPT !.ram_bank_num_or_upper_bits = BitAnd(value, 3)]
      [] register = "BANKING_MODE_SELECT_REGISTER" ->
            [m EXCEPT !.is_advanced_banking_mode = (BitAnd(value, 1) # 0)]
      [] OTHER -> m

Mbc3MapReadRomAddress(m, addr) ==
    IF addr < FIRST_ROM_BANK_END
    THEN addr
    ELSE addr + (m.rom_bank_num - 1) * ROM_BANK_SIZE

Mbc3MapWriteRomAddress(addr) ==
    IF addr < 8192 THEN LocRegister("RAM_RTC_ENABLE_REGISTER")
    ELSE IF addr < 16384 THEN LocRegister("ROM_BANK_NUMBER_REGISTER")
    ELSE IF addr < 24576 THEN LocRegister("RAM_RTC_MAPPING_REGISTER")
    ELSE LocRegister("LATCH_CLOCK_DATA_REGISTER")

\* RamRtcMapping::RtcRegister(r) is v = 8..12 with rtc set
RtcRegisterHandle(v) ==
    CASE v = 8 -> "RTC_REGISTER_SECONDS"
      [] v = 9 -> "RTC_REGISTER_MINUTES"
      [] v = 10 -> "RTC_REGISTER_HOURS"
      [] v = 11 -> "RTC_REGISTER_DAY_LOW"
      [] OTHER -> "RTC_REGISTER_DAY_HIGH"

Mbc3MapRamAddress(m, addr) ==
    IF ~m.is_ram_rtc_enabled
    THEN LocRegister("UNITIALIZED_RAM_VALUE_REGISTER")
    ELSE IF m.ram_rtc_mapping.rtc
        THEN LocRegister(RtcRegisterHandle(m.ram_rtc_mapping.v))
    ELSE LocAddress(PhysicalRamBankAddress(m.ram_rtc_mapping.v, addr))

\* the decomposition of a time, in seconds since the epoch, by RTC register
RtcField(reg, secs) ==
    CASE reg = "RTC_REGISTER_SECONDS" -> secs % 60
      [] reg = "RTC_REGISTER_MINUTES" -> (secs \div 60) % 60
      [] reg = "RTC_REGISTER_HOURS" -> (secs \div 3600) % 24
      [] reg = "RTC_REGISTER_DAY_LOW" -> (secs \div 86400) % 256
      [] OTHER -> (((secs \div 86400) % 65536) \div 256) % 2

\* Mbc3::read_register
Mbc3ReadRegister(m, reg) ==
    IF reg = "UNITIALIZED_RAM_VALUE_REGISTER" THEN 255
    ELSE IF m.latched_clock_time.some
        THEN RtcField(reg, m.latched_clock_time.secs)
    ELSE 0

\* Mbc3::write_register, latching on every write of 0x01
Mbc3LatchBugAnyOne(m, value, now) ==
    IF value = 0
    THEN [m EXCEPT !.last_latched_write = [some |-> TRUE, v |-> 0]]
    ELSE IF value = 1
        THEN [m EXCEPT !.latched_clock_time = [some |-> TRUE, secs |-> now],
                       !.last_latched_write = [some |-> FALSE, v |-> 0]]
    ELSE [m EXCEPT !.last_latched_write = [some |-> FALSE, v |-> 0]]

\* Mbc3::write_register, LATCH_CLOCK_DATA_REGISTER: now is SystemTime::now()
Mbc3Latch(m, value, now) ==
    IF value = 0
    THEN [m EXCEPT !.last_latched_write = [some |-> TRUE, v |-> 0]]
    ELSE IF m.last_latched_write = [some |-> TRUE, v |-> 0] /\ value = 1
        THEN [m EXCEPT !.latched_clock_time = [some |-> TRUE, secs |-> now],
                       !.last_latched_write = [some |-> FALSE, v |-> 0]]
    ELSE [m EXCEPT !.last_latched_write = [some |-> FALSE, v |-> 0]]

\* the RAM_RTC_MAPPING_REGISTER values the match arm rejects
Mbc3WritePanics(register, value) ==
    register = "RAM_RTC_MAPPING_REGISTER" /\ value > 12

\* Mbc3::write_register
Mbc3WriteRegister(m, register, value, now) ==
    CASE register = "RAM_RTC_ENABLE_REGISTER" ->
            [m EXCEPT !.is_ram_rtc_enabled = (BitAnd(value, 15) = 10)]
      [] register = "ROM_BANK_NUMBER_REGISTER" ->
            LET bank_num == BitAnd(value, 127)
            IN  [m EXCEPT !.rom_bank_num =
                    IF bank_num = 0 THEN 1 ELSE bank_num]
      [] register = "RAM_RTC_MAPPING_REGISTER" /\ value <= 12 ->
            [m EXCEPT !.ram_rtc_mapping = [rtc |-> value >= 8, v |-> value]]
      [] register = "LATCH_CLOCK_DATA_REGISTER" -> Mbc3Latch(m, value, now)
      [] OTHER -> m

\* the Mbc trait, dispatched on the kind of the cartridge's controller
MapReadRomAddress(m, addr) ==
    CASE m.kind = "Mbc1" -> Mbc1MapReadRomAddress(m, addr)
      [] m.kind = "Mbc3" -> Mbc3MapReadRomAddress(m, addr)
      [] OTHER -> addr

MapWriteRomAddress(m, addr) ==
    CASE m.kind = "Mbc1" -> Mbc1MapWriteRomAddress(addr)
      [] m.kind = "Mbc3" -> Mbc3MapWriteRomAddress(addr)
      [] OTHER -> LocAddress(addr)

MapRamAddress(m, addr) ==
    CASE m.kind = "Mbc1" -> Mbc1MapRamAddress(m, addr)
      [] m.kind = "Mbc3" -> Mbc3MapRamAddress(m, addr)
      [] OTHER -> LocAddress(addr - EXTERNAL_RAM_START)

MbcReadRegister(m, reg) ==
    CASE m.kind = "Mbc1" -> 255
      [] m.kind = "Mbc3" -> Mbc3ReadRegister(m, reg)
      [] OTHER -> 0

MbcWriteRegister(m, reg, value, now) ==
    CASE m.kind = "Mbc1" -> Mbc1WriteRegister(m, reg, value)
      [] m.kind = "Mbc3" -> Mbc3WriteRegister(m, reg, value, now)
      [] OTHER -> m

\* an access of the cartridge that indexes past the end of its ROM or RAM
CartridgePanics(e, addr) ==
    IF addr < ROM_END
    THEN MapReadRomAddress(e.mbc, addr) >= e.rom_size
    ELSE IF addr >= EXTERNAL_RAM_START /\ addr < EXTERNAL_RAM_END
        THEN LET loc == MapRamAddress(e.mbc, addr)
             IN  ~loc.is_reg /\ loc.addr >= e.ram_size
    ELSE FALSE

\* the bytes of external RAM behind the window, or the mapped register
ReadExternalRam(e, addr) ==
    LET loc == MapRamAddress(e.mbc, addr)
    IN  IF loc.is_reg
        THEN MbcReadRegister(e.mbc, loc.reg)
        ELSE Get(e.ext_ram, loc.addr)

\* The reads that abort: echo RAM, the write-only HDMA1..HDMA4, and an index
\* past the end of the cartridge's ROM or RAM.
ReadPanics(e, addr) ==
    \/ addr >= SECOND_WORK_RAM_BANK_END /\ addr < ECHO_RAM_END
    \/ CartridgePanics(e, addr)
    \/ addr \in {REG_HDMA1, REG_HDMA2, REG_HDMA3, REG_HDMA4}

ReadAddress(e, addr) ==
    IF addr < ROM_END THEN RomByte(MapReadRomAddress(e.mbc, addr))
    ELSE IF addr < VRAM_END THEN Get(e.vram, PhysicalVramBankAddress(e, addr))
    ELSE IF addr < EXTERNAL_RAM_END THEN ReadExternalRam(e, addr)
    ELSE IF addr < FIRST_WORK_RAM_BANK_END
        THEN Get(e.work_ram, addr - FIRST_WORK_RAM_BANK_START)
    ELSE IF addr < SECOND_WORK_RAM_BANK_END
        THEN Get(e.work_ram, PhysicalSecondWorkRamBankAddress(e, addr))
    ELSE IF addr < ECHO_RAM_END THEN 255
    ELSE IF addr < OAM_END THEN Get(e.oam, addr - OAM_START)
    ELSE IF addr < UNUSABLE_SPACE_END THEN 255
    ELSE IF addr < IO_REGISTERS_END THEN ReadIoRegister(e, addr)
    ELSE IF addr < HRAM_END THEN Get(e.hram, addr - HRAM_START)
    ELSE e.ie

\* -------------------------------------------------------- writes and DMA

RECURSIVE WriteAddress(_, _, _)
RECURSIVE CopyBytes(_, _, _, _, _)

\* start_oam_dma_transfer: panics when a transfer is already in progress
StartOamDmaTransfer(e, source_address) ==
    IF e.current_oam_dma_transfer.some
    THEN Panic(e)
    ELSE [e EXCEPT !.current_oam_dma_transfer =
            [some |-> TRUE, source_address |-> source_address,
             ticks_remaining |-> OAM_DMA_TRANSFER_TICKS]]

WriteDmaImpl(e, value) ==
    StartOamDmaTransfer(WriteRaw(e, REG_DMA, value), value * 256)

\* for i in 0..n: write_address(dst + i, read_address(src + i)), in order
CopyBytes(e, src, dst, i, n) ==
    IF i = n \/ e.panicked THEN e
    ELSE IF ReadPanics(e, WrapU16(src + i)) THEN Panic(e)
    ELSE CopyBytes(WriteAddress(e, WrapU16(dst + i),
                                ReadAddress(e, WrapU16(src + i))),
                   src, dst, i + 1, n)

StartGeneralPurposeVramDmaTransfer(e, source_address, dest_address, num_blocks) ==
    CopyBytes([e EXCEPT
                  !.current_general_purpose_vram_dma_transfer =
                      [some |-> TRUE,
                       ticks |-> num_blocks * VRAM_DMA_TRANSFER_TICKS_PER_BLOCK],
                  !.is_cpu_stopped_for_vram_dma = TRUE],
              source_address, dest_address, 0,
              num_blocks * VRAM_DMA_TRANSFER_BLOCK_SIZE)

StartHblankVramDmaTransfer(e, source, dest, num_blocks) ==
    [e EXCEPT !.current_hblank_vram_dma_transfer =
        [some |-> TRUE, source |-> source, dest |-> dest, in_block |-> FALSE,
         remaining_ticks_in_current_hblank |-> 0,
         num_blocks_left |-> num_blocks, total_num_blocks |-> num_blocks]]

TerminateHblankVramDmaTransfer(e) ==
    LET e1 == [e EXCEPT !.current_hblank_vram_dma_transfer = NoHblankDma]
    IN  WriteRaw(e1, REG_HDMA5, BitOr(IoRaw(e1, REG_HDMA5), 128))

Hdma5Source(e) ==
    BitAnd(IoRaw(e, REG_HDMA1) * 256 + IoRaw(e, REG_HDMA2), 65520)

Hdma5Dest(e) ==
    BitOr(BitAnd(IoRaw(e, REG_HDMA3) * 256 + IoRaw(e, REG_HDMA4), 8176), 32768)

WriteHdma5Impl(e, value) ==
    LET e1 == WriteRaw(e, REG_HDMA5, value)
        num_blocks == BitAnd(value, 127) + 1
    IN  IF ~IsBitSet(value, 7) /\ e1.current_hblank_vram_dma_transfer.some
        THEN TerminateHblankVramDmaTransfer(e1)
        ELSE IF IsBitSet(value, 7)
        THEN StartHblankVramDmaTransfer(e1, Hdma5Source(e1), Hdma5Dest(e1),
                                        num_blocks)
        ELSE StartGeneralPurposeVramDmaTransfer(e1, Hdma5Source(e1),
                                                Hdma5Dest(e1), num_blocks)

\* write_lyc_impl without the test of STAT bit 6
WriteLycImplBugNoStatTest(e, value) ==
    LET e1 == WriteRaw(e, REG_LYC, value)
    IN  IF value = e1.scanline
        THEN RequestInterrupt(e1, FLAG_LCD_STAT)
        ELSE e1

WriteLycImpl(e, value) ==
    LET e1 == WriteRaw(e, REG_LYC, value)
    IN  IF value = e1.scanline /\ IsBitSet(IoRaw(e1, REG_STAT), 6)
        THEN RequestInterrupt(e1, FLAG_LCD_STAT)
        ELSE e1

\* write_key0_impl without the test of is_booting
WriteKey0ImplBugAfterBoot(e, value) ==
    IF e.machine = "Cgb"
    THEN WriteRaw([e EXCEPT !.in_cgb_mode = ~IsBitSet(value, 2)],
                  REG_KEY0, BitOr(251, BitAnd(value, 4)))
    ELSE e

WriteKey0Impl(e, value) ==
    IF e.is_booting /\ e.machine = "Cgb"
    THEN WriteRaw([e EXCEPT !.in_cgb_mode = ~IsBitSet(value, 2)],
                  REG_KEY0, BitOr(251, BitAnd(value, 4)))
    ELSE e

WriteOpriImpl(e, value) ==
    IF e.is_booting THEN WriteRaw(e, REG_OPRI, BitAnd(1, value)) ELSE e

WriteWbkImpl(e, value) ==
    WriteRaw(e, REG_WBK,
             BitOr(248, IF BitAnd(7, value) = 0 THEN 1 ELSE BitAnd(7, value)))

WriteIoRegister(e, addr, value) ==
    CASE addr = REG_DIV -> [e EXCEPT !.full_divider_register = 0]
      [] addr = REG_TAC ->
            [e EXCEPT !.is_timer_enabled = IsBitSet(value, 2),
                      !.tac_mask = TacMaskFor(BitAnd(value, 3))]
      [] addr = REG_IF -> WriteIfImpl(e, value)
      [] addr = REG_LYC -> WriteLycImpl(e, value)
      [] addr = REG_DMA -> WriteDmaImpl(e, value)
      [] addr = REG_LY -> Panic(e)
      [] addr = REG_KEY0 -> WriteKey0Impl(e, value)
      [] addr = REG_KEY1 -> WriteRaw(e, REG_KEY1, BitAnd(value, 1))
      [] addr = REG_VBK -> WriteRaw(e, REG_VBK, BitOr(254, BitAnd(1, value)))
      [] addr = REG_BANK -> [e EXCEPT !.is_booting = FALSE]
      [] addr = REG_HDMA5 -> WriteHdma5Impl(e, value)
      [] addr = REG_BCPD -> WriteBcpdImpl(e, value)
      [] addr = REG_OCPD -> WriteOcpdImpl(e, value)
      [] addr = REG_OPRI -> WriteOpriImpl(e, value)
      [] addr = REG_WBK -> WriteWbkImpl(e, value)
      [] addr >= REG_NR11 /\ addr <= REG_NR11 + 3 ->
            [WriteRaw(e, addr, value) EXCEPT !.apu.channel_1 =
                PulseWrite(@, addr - REG_NR11 + 1, value)]
      [] addr >= REG_NR21 /\ addr <= REG_NR21 + 3 ->
            [WriteRaw(e, addr, value) EXCEPT !.apu.channel_2 =
                PulseWrite(@, addr - REG_NR21 + 1, value)]
      [] OTHER -> WriteRaw(e, addr, value)

WriteAddress(e, addr, value) ==
    IF addr < ROM_END
    THEN LET loc == MapWriteRomAddress(e.mbc, addr)
         IN  IF ~loc.is_reg THEN e
             ELSE IF e.mbc.kind = "Mbc3" /\ Mbc3WritePanics(loc.reg, value)
                 THEN Panic(e)
             ELSE [e EXCEPT !.mbc =
                     MbcWriteRegister(e.mbc, loc.reg, value, e.system_time)]
    ELSE IF addr < VRAM_END
        THEN [e EXCEPT !.vram =
                Put(e.vram, PhysicalVramBankAddress(e, addr), value)]
    ELSE IF addr < EXTERNAL_RAM_END
        THEN LET loc == MapRamAddress(e.mbc, addr)
             IN  IF loc.is_reg
                 THEN [e EXCEPT !.mbc = MbcWriteRegister(
                         e.mbc, loc.reg, value, e.system_time)]
                 ELSE IF loc.addr >= e.ram_size THEN Panic(e)
                 ELSE [e EXCEPT !.ext_ram = Put(e.ext_ram, loc.addr, value)]
    ELSE IF addr < FIRST_WORK_RAM_BANK_END
        THEN [e EXCEPT !.work_ram =
                Put(e.work_ram, addr - FIRST_WORK_RAM_BANK_START, value)]
    ELSE IF addr < SECOND_WORK_RAM_BANK_END
        THEN [e EXCEPT !.work_ram =
                Put(e.work_ram, PhysicalSecondWorkRamBankAddress(e, addr), value)]
    ELSE IF addr < ECHO_RAM_END THEN Panic(e)
    ELSE IF addr < OAM_END
        THEN [e EXCEPT !.oam = Put(e.oam, addr - OAM_START, value)]
    ELSE IF addr < UNUSABLE_SPACE_END THEN e
    ELSE IF addr < IO_REGISTERS_END THEN WriteIoRegister(e, addr, value)
    ELSE IF addr < HRAM_END
        THEN [e EXCEPT !.hram = Put(e.hram, addr - HRAM_START, value)]
    ELSE [e EXCEPT !.ie = value]

\* -------------------------------------------------------------------- CPU

ScheduleNextInstruction(e, ticks) ==
    [e EXCEPT !.ticks_to_next_instruction = ticks]

\* push_u16_to_stack: high byte at sp - 1, low byte at sp - 2
PushU16ToStack(e, value) ==
    LET new_sp == WrapU16(e.sp + 65534)
        e1 == WriteAddress(e, WrapU16(new_sp + 1), value \div 256)
        e2 == WriteAddress(e1, new_sp, value % 256)
    IN  [e2 EXCEPT !.sp = new_sp]

\* the value pop_u16_from_stack returns
StackTop(e) ==
    ReadAddress(e, WrapU16(e.sp + 1)) * 256 + ReadAddress(e, e.sp)

CallInterruptHandler(e, flag_bit) ==
    [PushU16ToStack(e, e.pc) EXCEPT !.pc = HandlerAddress(flag_bit)]

HandleInterruptBugKeepsIme(e, flag_bit) ==
    CallInterruptHandler(
        WriteIfImpl(ScheduleNextInstruction(e, INTERRUPT_TICKS),
                    BitAndNot(IfReg(e), flag_bit)),
        flag_bit)

HandleInterrupt(e, flag_bit) ==
    CallInterruptHandler(
        [WriteIfImpl(ScheduleNextInstruction(e, INTERRUPT_TICKS),
                     BitAndNot(IfReg(e), flag_bit))
            EXCEPT !.interrupts_enabled = FALSE],
        flag_bit)

AddPendingEnableInterruptsBugNoDelay(e) ==
    CASE e.pending_enable_interrupts = "None" ->
            [e EXCEPT !.pending_enable_interrupts = "AfterCurrentInstruction"]
      [] e.pending_enable_interrupts \in
            {"AfterCurrentInstruction", "AfterCurrentInstructionRepeat"} ->
            [e EXCEPT !.pending_enable_interrupts =
                "AfterCurrentInstructionRepeat"]
      [] OTHER -> e

AddPendingEnableInterrupts(e) ==
    CASE e.pending_enable_interrupts = "None" ->
            [e EXCEPT !.pending_enable_interrupts = "AfterNextInstruction"]
      [] e.pending_enable_interrupts \in
            {"AfterCurrentInstruction", "AfterCurrentInstructionRepeat"} ->
            [e EXCEPT !.pending_enable_interrupts =
                "AfterCurrentInstructionRepeat"]
      [] OTHER -> e

\* advance_pending_enable_interrupts_state with a repeated ei waiting one
\* more instruction before it enables
AdvancePendingEnableInterruptsStateBugRestart(e) ==
    IF e.ticks_to_next_instruction # 0 THEN e
    ELSE CASE e.pending_enable_interrupts = "None" -> e
           [] e.pending_enable_interrupts = "AfterCurrentInstruction" ->
                [e EXCEPT !.interrupts_enabled = TRUE,
                          !.pending_enable_interrupts = "None"]
           [] e.pending_enable_interrupts = "AfterCurrentInstructionRepeat" ->
                [e EXCEPT !.pending_enable_interrupts = "AfterCurrentInstruction"]
           [] e.pending_enable_interrupts = "AfterNextInstruction" ->
                [e EXCEPT !.pending_enable_interrupts = "AfterCurrentInstruction"]

AdvancePendingEnableInterruptsState(e) ==
    IF e.ticks_to_next_instruction # 0 THEN e
    ELSE CASE e.pending_enable_interrupts = "None" -> e
           [] e.pending_enable_interrupts = "AfterCurrentInstruction" ->
                [e EXCEPT !.interrupts_enabled = TRUE,
                          !.pending_enable_interrupts = "None"]
           [] e.pending_enable_interrupts = "AfterCurrentInstructionRepeat" ->
                [e EXCEPT !.interrupts_enabled = TRUE,
                          !.pending_enable_interrupts = "AfterCurrentInstruction"]
           [] e.pending_enable_interrupts = "AfterNextInstruction" ->
                [e EXCEPT !.pending_enable_interrupts = "AfterCurrentInstruction"]

\* The instructions the model executes.  The opcode and immediate bytes the
\* fetch reads at PC, and the accumulator a store writes, are inputs of the
\* step: the program is arbitrary.
Nop == [op |-> "nop", addr |-> 0, a |-> 0]
Ei == [op |-> "ei", addr |-> 0, a |-> 0]
Di == [op |-> "di", addr |-> 0, a |-> 0]
Halt == [op |-> "halt", addr |-> 0, a |-> 0]
Reti == [op |-> "reti", addr |-> 0, a |-> 0]
Ldh(addr, a) == [op |-> "ldh_imm8mem_a", addr |-> addr, a |-> a]
Ld16(addr, a) == [op |-> "ld_imm16mem_a", addr |-> addr, a |-> a]

Daa == [op |-> "daa", addr |-> 0, a |-> 0]

\* the result daa computes from the accumulator and the flags
DaaResult(regs) ==
    LET low == IF regs.h_flag \/ (~regs.n_flag /\ regs.a % 16 > 9)
               THEN 6 ELSE 0
        high == IF regs.carry_flag \/ (~regs.n_flag /\ regs.a > 153)
                THEN 96 ELSE 0
        adjustment == low + high
    IN  IF regs.n_flag THEN (regs.a + 256 - adjustment) % 256
        ELSE (regs.a + adjustment) % 256

\* daa storing its result in the accumulator
DaaInstructionStoringResult(e) ==
    LET regs == e.regs
        carried == regs.carry_flag \/ (~regs.n_flag /\ regs.a > 153)
        result == DaaResult(regs)
    IN  [e EXCEPT !.regs = [regs EXCEPT !.a = result,
                                        !.zero_flag = (result = 0),
                                        !.h_flag = FALSE,
                                        !.carry_flag = carried]]

\* the daa instruction: the result sets the zero flag and is not stored
DaaInstruction(e) ==
    LET regs == e.regs
        carried == regs.carry_flag \/ (~regs.n_flag /\ regs.a > 153)
        result == DaaResult(regs)
    IN  [e EXCEPT !.regs = [regs EXCEPT !.zero_flag = (result = 0),
                                        !.h_flag = FALSE,
                                        !.carry_flag = carried]]

\* halt as the source has it: the call of halt_cpu is commented out
HaltInstruction(e) == ScheduleNextInstruction(e, 4)

\* execute_instruction: read_opcode (pc + 1), then the handler
ExecuteInstruction(e, instr) ==
    LET e1 == [e EXCEPT !.pc = e.pc + 1]
    IN  CASE instr.op = "nop" -> ScheduleNextInstruction(e1, 4)
          [] instr.op = "ei" ->
                ScheduleNextInstruction(AddPendingEnableInterrupts(e1), 4)
          [] instr.op = "di" ->
                ScheduleNextInstruction(
                    [e1 EXCEPT !.interrupts_enabled = FALSE], 4)
          [] instr.op = "halt" -> HaltInstruction(e1)
          [] instr.op = "daa" -> ScheduleNextInstruction(DaaInstruction(e1), 4)
          [] instr.op = "reti" ->
                ScheduleNextInstruction(
                    [e1 EXCEPT !.pc = StackTop(e1),
                               !.sp = WrapU16(e1.sp + 2),
                               !.interrupts_enabled = TRUE], 16)
          [] instr.op = "ldh_imm8mem_a" ->
                ScheduleNextInstruction(
                    WriteAddress([e1 EXCEPT !.pc = e1.pc + 1],
                                 instr.addr, instr.a), 12)
          [] instr.op = "ld_imm16mem_a" ->
                ScheduleNextInstruction(
                    WriteAddress([e1 EXCEPT !.pc = e1.pc + 2],
                                 instr.addr, instr.a), 16)

ResumeHaltedCpu(e) ==
    [e EXCEPT !.is_cpu_halted = FALSE, !.current_speed_switch = NoSpeedSwitch]

\* The 'handled block of run_tick.  The result carries the state and what
\* the block did: "interrupt" (handle_interrupt), "instr"
\* (execute_instruction) or "none".
CpuSlot(e, instr) ==
    IF e.ticks_to_next_instruction # 0 THEN [e |-> e, did |-> "none"]
    ELSE LET interrupt_bits == InterruptBits(e)
             e1 == IF interrupt_bits # 0 THEN ResumeHaltedCpu(e) ELSE e
         IN  IF interrupt_bits # 0 /\ e1.interrupts_enabled
             THEN [e |-> HandleInterrupt(e1, ForBits(interrupt_bits)),
                   did |-> "interrupt"]
             ELSE IF ~e1.is_cpu_halted /\ ~e1.is_cpu_stopped_for_vram_dma
             THEN [e |-> ExecuteInstruction(e1, instr), did |-> "instr"]
             ELSE [e |-> e1, did |-> "none"]

\* ----------------------------------------------------------------- timers

\* (old_divider & !new_divider) & tac_mask != 0, tac_mask having one bit set
TacFallingEdge(old_divider, new_divider, tac_mask) ==
    /\ (old_divider \div tac_mask) % 2 = 1
    /\ (new_divider \div tac_mask) % 2 = 0

IncrementTimers(e) ==
    LET old_divider == e.full_divider_register
        new_divider == WrapU16(old_divider + (IF e.is_double_speed THEN 2 ELSE 1))
        div_apu_falling_edge_mask == IF e.is_double_speed THEN 8192 ELSE 4096
        e1 == [e EXCEPT !.full_divider_register = new_divider]
        e2 == IF TacFallingEdge(old_divider, new_divider, e.tac_mask)
                 /\ e.is_timer_enabled
              THEN IF IoRaw(e1, REG_TIMA) = 255
                   THEN RequestInterrupt(
                            WriteRaw(e1, REG_TIMA, IoRaw(e1, REG_TMA)),
                            FLAG_TIMER)
                   ELSE WriteRaw(e1, REG_TIMA, IoRaw(e1, REG_TIMA) + 1)
              ELSE e1
    IN  IF TacFallingEdge(old_divider, new_divider, div_apu_falling_edge_mask)
        THEN [e2 EXCEPT !.apu = AdvanceDivApu(@)]
        ELSE e2

\* ------------------------------------------------------- DMA state machines

\* complete_oam_dma_transfer: oam[i] = read_address(source + i), i in 0..160
CompleteOamDmaTransfer(e) ==
    LET src == e.current_oam_dma_transfer.source_address
        e1 == [e EXCEPT !.current_oam_dma_transfer = NoOamDma]
        nonzero == {i \in 0..(OAM_SIZE - 1) :
                        ReadAddress(e1, WrapU16(src + i)) # 0}
    IN  IF \E i \in 0..(OAM_SIZE - 1) : ReadPanics(e1, WrapU16(src + i))
        THEN Panic(e1)
        ELSE [e1 EXCEPT !.oam =
                [i \in nonzero |-> ReadAddress(e1, WrapU16(src + i))]]

AdvanceOamDmaTransferStateBugEarly(e) ==
    IF ~e.current_oam_dma_transfer.some THEN e
    ELSE IF e.current_oam_dma_transfer.ticks_remaining <= 1
    THEN CompleteOamDmaTransfer(e)
    ELSE [e EXCEPT !.current_oam_dma_transfer.ticks_remaining = @ - 1]

\* advance_oam_dma_transfer_state copying on the first tick of the transfer
\* and only ending the transfer on the last
AdvanceOamDmaTransferStateBugCopyFirst(e) ==
    IF ~e.current_oam_dma_transfer.some THEN e
    ELSE IF e.current_oam_dma_transfer.ticks_remaining = 0
    THEN [e EXCEPT !.current_oam_dma_transfer = NoOamDma]
    ELSE IF e.current_oam_dma_transfer.ticks_remaining = OAM_DMA_TRANSFER_TICKS
    THEN [CompleteOamDmaTransfer(e) EXCEPT
            !.current_oam_dma_transfer =
                [e.current_oam_dma_transfer EXCEPT !.ticks_remaining = @ - 1]]
    ELSE [e EXCEPT !.current_oam_dma_transfer.ticks_remaining = @ - 1]

AdvanceOamDmaTransferState(e) ==
    IF ~e.current_oam_dma_transfer.some THEN e
    ELSE IF e.current_oam_dma_transfer.ticks_remaining = 0
    THEN CompleteOamDmaTransfer(e)
    ELSE IF e.is_double_speed
    THEN [e EXCEPT !.current_oam_dma_transfer.ticks_remaining =
                        IF @ < 2 THEN 0 ELSE @ - 2]
    ELSE [e EXCEPT !.current_oam_dma_transfer.ticks_remaining = @ - 1]

\* advance_general_purpose_vram_dma_transfer_state completing a tick early
AdvanceGeneralPurposeVramDmaTransferStateBugEarly(e) ==
    IF ~e.current_general_purpose_vram_dma_transfer.some THEN e
    ELSE IF e.current_general_purpose_vram_dma_transfer.ticks <= 1
    THEN WriteRaw([e EXCEPT !.is_cpu_stopped_for_vram_dma = FALSE,
                            !.current_general_purpose_vram_dma_transfer = NoGpDma],
                  REG_HDMA5, 255)
    ELSE [e EXCEPT !.current_general_purpose_vram_dma_transfer.ticks = @ - 1]

AdvanceGeneralPurposeVramDmaTransferState(e) ==
    IF ~e.current_general_purpose_vram_dma_transfer.some THEN e
    ELSE IF e.current_general_purpose_vram_dma_transfer.ticks = 0
    THEN WriteRaw([e EXCEPT !.is_cpu_stopped_for_vram_dma = FALSE,
                            !.current_general_purpose_vram_dma_transfer = NoGpDma],
                  REG_HDMA5, 255)
    ELSE [e EXCEPT !.current_general_purpose_vram_dma_transfer.ticks = @ - 1]

\* start_hblank_vram_dma_transfer_block copying the first block every time
StartHblankVramDmaTransferBlockBugFirstBlock(e) ==
    IF e.is_cpu_halted THEN e
    ELSE LET t == e.current_hblank_vram_dma_transfer
             e1 == CopyBytes(e, t.source, t.dest, 0, VRAM_DMA_TRANSFER_BLOCK_SIZE)
         IN  [e1 EXCEPT
                !.current_hblank_vram_dma_transfer.num_blocks_left = @ - 1,
                !.current_hblank_vram_dma_transfer.in_block = TRUE,
                !.current_hblank_vram_dma_transfer.remaining_ticks_in_current_hblank =
                    VRAM_DMA_TRANSFER_TICKS_PER_BLOCK,
                !.is_cpu_stopped_for_vram_dma = TRUE]

\* start_hblank_vram_dma_transfer_block, called by enter_hblank
StartHblankVramDmaTransferBlock(e) ==
    IF e.is_cpu_halted THEN e
    ELSE LET t == e.current_hblank_vram_dma_transfer
             block_offset == (t.total_num_blocks - t.num_blocks_left)
                                * VRAM_DMA_TRANSFER_BLOCK_SIZE
             e1 == CopyBytes(e, t.source + block_offset, t.dest + block_offset,
                             0, VRAM_DMA_TRANSFER_BLOCK_SIZE)
         IN  [e1 EXCEPT
                !.current_hblank_vram_dma_transfer.num_blocks_left = @ - 1,
                !.current_hblank_vram_dma_transfer.in_block = TRUE,
                !.current_hblank_vram_dma_transfer.remaining_ticks_in_current_hblank =
                    VRAM_DMA_TRANSFER_TICKS_PER_BLOCK,
                !.is_cpu_stopped_for_vram_dma = TRUE]

AdvanceHblankVramDmaTransferState(e) ==
    LET t == e.current_hblank_vram_dma_transfer
    IN  IF ~t.some \/ e.is_cpu_halted THEN e
        ELSE IF t.in_block /\ t.remaining_ticks_in_current_hblank = 0
        THEN LET e1 == WriteRaw(
                        [e EXCEPT
                            !.current_hblank_vram_dma_transfer.in_block = FALSE,
                            !.is_cpu_stopped_for_vram_dma = FALSE],
                        REG_HDMA5, BitAnd(t.num_blocks_left, 127))
             IN  IF t.num_blocks_left = 0
                 THEN WriteRaw([e1 EXCEPT
                                  !.current_hblank_vram_dma_transfer = NoHblankDma],
                               REG_HDMA5, 255)
                 ELSE e1
        ELSE IF t.in_block
        THEN [e EXCEPT
                !.current_hblank_vram_dma_transfer.remaining_ticks_in_current_hblank =
                    @ - 1]
        ELSE e

AdvanceSpeedSwitchState(e) ==
    IF ~e.current_speed_switch.some THEN e
    ELSE IF e.current_speed_switch.ticks = 0 THEN ResumeHaltedCpu(e)
    ELSE [e EXCEPT !.current_speed_switch.ticks = @ - 1]

\* ----------------------------------------------------------- host commands

NUM_QUICK_SAVE_SLOTS == 10
TURBO_MULTIPLIER == 10

QuickSave(slot) == [kind |-> "QuickSave", arg |-> slot]
LoadQuickSave(slot) == [kind |-> "LoadQuickSave", arg |-> slot]
SetTurboMode(b) == [kind |-> "SetTurboMode", arg |-> IF b THEN 1 ELSE 0]
VolumeUp == [kind |-> "VolumeUp", arg |-> 0]
VolumeDown == [kind |-> "VolumeDown", arg |-> 0]
ToggleMute == [kind |-> "ToggleMute", arg |-> 0]

\* The save file's quick-save slots: each empty or a serialized emulator.
NoSnapshot == <<>>

\* quick_save: the whole struct but the #[serde(skip)] fields.  w is the
\* emulator (e), the save file's slots (saves) and, for the properties only,
\* whether a load has replaced the struct (loaded).
QuickSaveCmd(w, slot) ==
    IF slot >= NUM_QUICK_SAVE_SLOTS THEN w
    ELSE [w EXCEPT !.saves[slot] = <<w.e>>]

\* from_quick_save_bytes: the fields marked serde(skip) are not in the bytes
\* and come back as their defaults: no handle (FALSE), default options,
\* microframe 0, turbo mode off
FromQuickSaveBytes(snapshot) ==
    [snapshot EXCEPT !.in_turbo_mode = FALSE,
                     !.microframe = 0,
                     !.options = "default",
                     !.input_adapter = FALSE,
                     !.output_buffer = FALSE,
                     !.audio_output = FALSE,
                     !.save_file_path = FALSE]

\* load_quick_save: the struct is replaced by the deserialized one; of the
\* skipped fields only microframe, the options and the handles are put back
LoadQuickSaveCmd(w, slot) ==
    IF slot >= NUM_QUICK_SAVE_SLOTS THEN w
    ELSE IF w.saves[slot] = NoSnapshot THEN w
    ELSE [w EXCEPT !.e = [FromQuickSaveBytes(w.saves[slot][1])
                            EXCEPT !.options = w.e.options,
                                   !.save_file_path = w.e.save_file_path,
                                   !.input_adapter = w.e.input_adapter,
                                   !.output_buffer = w.e.output_buffer,
                                   !.audio_output = w.e.audio_output,
                                   !.microframe = w.e.microframe],
                   !.loaded = TRUE]

HandleCommand(w, command) ==
    CASE command.kind = "QuickSave" -> QuickSaveCmd(w, command.arg)
      [] command.kind = "LoadQuickSave" -> LoadQuickSaveCmd(w, command.arg)
      [] command.kind = "SetTurboMode" ->
            [w EXCEPT !.e.in_turbo_mode = (command.arg = 1)]
      [] command.kind = "VolumeUp" ->
            [w EXCEPT !.e.apu.system_volume_index =
                        IF @ + 1 < NUM_SYSTEM_VOLUME_LEVELS THEN @ + 1
                        ELSE NUM_SYSTEM_VOLUME_LEVELS - 1]
      [] command.kind = "VolumeDown" ->
            [w EXCEPT !.e.apu.system_volume_index =
                        IF @ = 0 THEN 0 ELSE @ - 1]
      [] command.kind = "ToggleMute" ->
            [w EXCEPT !.e.apu.is_muted = ~@]

\* handle_inputs taking the newest command first
RECURSIVE HandleInputsBugNewestFirst(_, _)
HandleInputsBugNewestFirst(w, queue) ==
    IF queue = <<>> THEN w
    ELSE HandleInputsBugNewestFirst(HandleCommand(w, queue[Len(queue)]),
                                    SubSeq(queue, 1, Len(queue) - 1))

\* handle_inputs: try_recv until the channel is empty
RECURSIVE HandleInputs(_, _)
HandleInputs(w, queue) ==
    IF queue = <<>> THEN w
    ELSE HandleInputs(HandleCommand(w, Head(queue)), Tail(queue))

\* ------------------------------------------------------------------ run_tick

\* The end of run_tick: the tick counter, the instruction counter, then the
\* state machines in the order the source advances them.
EndOfTick(e) ==
    AdvanceSpeedSwitchState(
    AdvanceHblankVramDmaTransferState(
    AdvanceGeneralPurposeVramDmaTransferState(
    AdvanceOamDmaTransferState(
    AdvancePendingEnableInterruptsState(
        [e EXCEPT !.tick = e.tick + 1,
                  !.ticks_to_next_instruction =
                      IF e.is_double_speed
                      THEN (IF @ < 2 THEN 0 ELSE @ - 2)
                      ELSE (IF @ = 0 THEN 0 ELSE @ - 1)])))))

\* The state in which the CPU slot of run_tick decides: after handle_inputs,
\* increment_timers and advance_period_timers.  inp is the state
\* handle_inputs left.
BeforeCpuSlot(e, saves, queue) ==
    LET w == HandleInputs([e |-> e, saves |-> saves, loaded |-> FALSE], queue)
    IN  [e |-> AdvanceApuPeriodTimers(IncrementTimers(w.e)),
         saves |-> w.saves, loaded |-> w.loaded,
         inp |-> w.e]

\* run_tick.  dec is the state the CPU slot decided in, did what it did; a
\* panic inside the slot ends the tick there.
RunTickFrom(w, instr) ==
    LET s == IF w.e.panicked THEN [e |-> w.e, did |-> "none"]
             ELSE CpuSlot(w.e, instr)
    IN  [e |-> IF s.e.panicked THEN s.e ELSE EndOfTick(s.e),
         saves |-> w.saves, loaded |-> w.loaded, inp |-> w.inp, dec |-> w.e,
         did |-> s.did]

RunTick(e, saves, queue, instr) ==
    RunTickFrom(BeforeCpuSlot(e, saves, queue), instr)

\* ------------------------------------------------------------ construction

\* Registers::init_for_machine: the accumulator and the four flags
RegistersInit(machine) ==
    [a |-> IF machine = "Cgb" THEN 17 ELSE 1,
     zero_flag |-> TRUE, carry_flag |-> FALSE,
     n_flag |-> FALSE, h_flag |-> FALSE]

\* Emulator::initial_state with Registers::init_for_machine and
\* IoRegisters::init_for_machine; cgb_byte is the cartridge header's CGB flag.
InitialState(machine, cgb_byte) ==
    [machine |-> machine,
     cgb_byte |-> cgb_byte,
     tick |-> 0,
     scanline |-> 0,
     mode |-> "OamScan",
     in_cgb_mode |-> FALSE,
     vram |-> EmptyRam,
     cgb_background_palettes |-> EmptyRam,
     cgb_object_palettes |-> EmptyRam,
     oam |-> EmptyRam,
     hram |-> EmptyRam,
     work_ram |-> EmptyRam,
     ext_ram |-> EmptyRam,
     mbc |-> NoMbc,
     rom_size |-> 2 * ROM_BANK_SIZE,
     ram_size |-> SINGLE_EXTERNAL_RAM_BANK_SIZE,
     system_time |-> 0,
     apu |-> ApuNew,
     overflow_checks |-> TRUE,
     pc |-> 256,
     sp |-> 65534,
     regs |-> RegistersInit(machine),
     window_line_counter |-> WindowLineCounterNew,
     interrupts_enabled |-> FALSE,
     io |-> IoRegistersInit(machine),
     ie |-> 0,
     ticks_to_next_instruction |-> 0,
     pending_enable_interrupts |-> "None",
     current_oam_dma_transfer |-> NoOamDma,
     current_hblank_vram_dma_transfer |-> NoHblankDma,
     current_general_purpose_vram_dma_transfer |-> NoGpDma,
     current_speed_switch |-> NoSpeedSwitch,
     is_cpu_halted |-> FALSE,
     is_cpu_stopped_for_vram_dma |-> FALSE,
     full_divider_register |-> 0,
     tac_mask |-> TAC_MASK_1024_TICKS,
     is_timer_enabled |-> FALSE,
     in_turbo_mode |-> FALSE,
     microframe |-> 0,
     options |-> "given",
     input_adapter |-> TRUE,
     output_buffer |-> TRUE,
     audio_output |-> TRUE,
     save_file_path |-> TRUE,
     is_booting |-> TRUE,
     is_double_speed |-> FALSE,
     panicked |-> FALSE]

\* emulate_boot_sequence
EmulateBootSequence(e) ==
    LET e1 == IF e.machine = "Cgb"
              THEN IF IsBitSet(e.cgb_byte, 7)
                   THEN WriteKey0Impl(e, e.cgb_byte)
                   ELSE WriteOpriImpl(WriteKey0Impl(e, 4), 1)
              ELSE e
    IN  WriteIoRegister(e1, REG_BANK, 1)

\* ------------------------------------------------------------------- PPU

\* set_mode testing the OAM scan source bit on the way into HBlank
SetModeBugHblankSource(e, mode) ==
    LET e1 == [e EXCEPT !.mode = mode]
        stat == IoRaw(e1, REG_STAT)
    IN  CASE mode = "HBlank" ->
                IF IsBitSet(stat, 5) THEN RequestInterrupt(e1, FLAG_LCD_STAT)
                ELSE e1
          [] mode = "VBlank" ->
                LET e2 == RequestInterrupt(e1, FLAG_VBLANK)
                IN  IF IsBitSet(stat, 4) THEN RequestInterrupt(e2, FLAG_LCD_STAT)
                    ELSE e2
          [] mode = "OamScan" ->
                IF IsBitSet(stat, 5) THEN RequestInterrupt(e1, FLAG_LCD_STAT)
                ELSE e1
          [] mode = "Draw" -> e1

SetMode(e, mode) ==
    LET e1 == [e EXCEPT !.mode = mode]
        stat == IoRaw(e1, REG_STAT)
    IN  CASE mode = "HBlank" ->
                IF IsBitSet(stat, 3) THEN RequestInterrupt(e1, FLAG_LCD_STAT)
                ELSE e1
          [] mode = "VBlank" ->
                LET e2 == RequestInterrupt(e1, FLAG_VBLANK)
                IN  IF IsBitSet(stat, 4) THEN RequestInterrupt(e2, FLAG_LCD_STAT)
                    ELSE e2
          [] mode = "OamScan" ->
                IF IsBitSet(stat, 5) THEN RequestInterrupt(e1, FLAG_LCD_STAT)
                ELSE e1
          [] mode = "Draw" -> e1

\* enter_vblank
EnterVblank(e) ==
    [SetMode(e, "VBlank") EXCEPT !.window_line_counter = WindowLineCounterNew]

\* WindowLineCounter::get_for_scanline, the counter it leaves
GetForScanline(c, screen_scanline) ==
    IF c.last_updated_scanline # <<>>
    THEN IF screen_scanline # c.last_updated_scanline[1]
         THEN [line |-> (c.line + 1) % 256,
               last_updated_scanline |-> <<screen_scanline>>]
         ELSE c
    ELSE [line |-> 0, last_updated_scanline |-> <<screen_scanline>>]

\* window_tile_map_coordinates returns Some: the pixel is in the window
InWindow(e, x, y) ==
    LET wx == IoRaw(e, REG_WX)
        window_start_x == (wx + 256 - 7) % 256
        is_window_start_x_negative == wx < 7
        window_start_y == IoRaw(e, REG_WY)
    IN  ~(\/ (window_start_x > x /\ ~is_window_start_x_negative)
          \/ window_start_y > y)

\* background_or_window_color_index looks the pixel up in the window
LooksUpWindow(e, x, y) ==
    /\ e.in_cgb_mode \/ IsBitSet(IoRaw(e, REG_LCDC), 0)
    /\ IsBitSet(IoRaw(e, REG_LCDC), 5)
    /\ InWindow(e, x, y)

\* draw_scanline calling get_for_scanline on every scanline
DrawScanlineBugEveryScanline(e, scanline) ==
    [e EXCEPT !.window_line_counter = GetForScanline(@, scanline)]

\* draw_scanline, as far as it changes the emulator: the window line counter
\* is asked for the scanline at each pixel that lies in the window
DrawScanline(e, scanline) ==
    IF \E x \in 0..(SCREEN_WIDTH - 1) : LooksUpWindow(e, x, scanline)
    THEN [e EXCEPT !.window_line_counter = GetForScanline(@, scanline)]
    ELSE e

EnterHblank(e) ==
    LET e1 == SetMode(e, "HBlank")
    IN  IF e1.current_hblank_vram_dma_transfer.some
        THEN StartHblankVramDmaTransferBlock(e1)
        ELSE e1

\* run_scanline's head entering VBlank one scanline late
RunScanlineHeadBugVblankLate(e, scanline) ==
    LET e1 == [e EXCEPT !.scanline = scanline]
        e2 == IF IsBitSet(IoRaw(e1, REG_STAT), 6)
                 /\ e1.scanline = IoRaw(e1, REG_LYC)
              THEN RequestInterrupt(e1, FLAG_LCD_STAT)
              ELSE e1
    IN  IF scanline < SCREEN_HEIGHT THEN SetMode(e2, "OamScan")
        ELSE IF scanline = SCREEN_HEIGHT + 1 THEN EnterVblank(e2)
        ELSE e2

\* the head of run_scanline, up to the first loop of run_tick calls
RunScanlineHead(e, scanline) ==
    LET e1 == [e EXCEPT !.scanline = scanline]
        e2 == IF IsBitSet(IoRaw(e1, REG_STAT), 6)
                 /\ e1.scanline = IoRaw(e1, REG_LYC)
              THEN RequestInterrupt(e1, FLAG_LCD_STAT)
              ELSE e1
    IN  IF scanline < SCREEN_HEIGHT THEN SetMode(e2, "OamScan")
        ELSE IF scanline = SCREEN_HEIGHT THEN EnterVblank(e2)
        ELSE e2

\* --------------------------------------------------------------- the program

\* The cartridge program is an input.  prog maps the addresses at which the
\* program holds something other than a nop to the instruction there; an
\* address outside its domain holds a nop, or, in the specification that
\* explores all programs, an instruction not yet chosen.
NoProgram == [x \in {} |-> Nop]

\* bytes an instruction occupies; "pad" stands for addr nops
InstrSize(instr) ==
    CASE instr.op = "ldh_imm8mem_a" -> 2
      [] instr.op = "ld_imm16mem_a" -> 3
      [] instr.op = "pad" -> instr.addr
      [] OTHER -> 1

Pad(n) == [op |-> "pad", addr |-> n, a |-> 0]

\* the image of the instruction sequence seq laid out from address base
RECURSIVE Layout(_, _)
Layout(seq, base) ==
    IF seq = <<>> THEN NoProgram
    ELSE IF Head(seq).op \in {"pad", "nop"}
    THEN Layout(Tail(seq), base + InstrSize(Head(seq)))
    ELSE (base :> Head(seq)) @@ Layout(Tail(seq), base + InstrSize(Head(seq)))

\* --------------------------------------------------------------- observation

\* What the properties read of the run so far.  Nothing here feeds back into
\* the program's state.
\*   at              "tick" when the last step was a run_tick, else "sched"
\*   ticks           run_tick calls so far
\*   frame_ticks     run_tick calls since run_frame began
\*   loaded          a LoadQuickSave replaced the struct during this frame
\*   vblank_entries  times the mode became VBlank during this frame
\*   slots           CPU slots used so far (instructions and dispatches)
\*   idle            run_tick calls since the last used CPU slot
\*   hist            the last used CPU slots, oldest first (at most HistLen)
\*   last            the last run_tick: what its CPU slot did, the state
\*                   it decided in, and the timer registers before (div,
\*                   tac, tima, tma, if0) and after (dec_tima, iflags)
\*                   increment_timers
\*   store           the last store to an IO register: its address and
\*                   byte, the state its CPU slot decided in, and the number
\*                   of run_tick calls since (age)
\*   dma             the stores to the DMA register so far: how many, the
\*                   first one's byte, whether all wrote that byte, and OAM as
\*                   the first one's transfer left it
\*   hblank_block    whether the last enter_hblank started a block of an
\*                   HBlank VRAM DMA
\*   halt_pending    a halt instruction has executed and IE & IF & 0x1F has
\*                   been 0 in every CPU slot since
HistLen == 3

NoTick ==
    [did |-> "none", op |-> "", ready |-> FALSE, ime |-> FALSE, ie |-> 0,
     iflags |-> 0, pc |-> 0, sp |-> 0, div |-> 0, tac |-> 0, tima |-> 0,
     tma |-> 0, if0 |-> 0, dec_tima |-> 0]

NoStore == [some |-> FALSE, addr |-> 0, a |-> 0, age |-> 0, dec |-> <<>>]

NoDma == [writes |-> 0, a |-> 0, same |-> TRUE, done |-> FALSE, oam |-> EmptyRam]

ObsInit ==
    [at |-> "sched", ticks |-> 0, frame_ticks |-> 0, loaded |-> FALSE,
     vblank_entries |-> 0, slots |-> 0, idle |-> 0, hist |-> <<>>,
     last |-> NoTick, store |-> NoStore, dma |-> NoDma,
     hblank_block |-> FALSE, halt_pending |-> FALSE, window_lines |-> 0]

KeepLast(h, n) == IF Len(h) <= n THEN h ELSE SubSeq(h, Len(h) - n + 1, Len(h))

BecameVblank(pre, post) ==
    IF pre.mode # "VBlank" /\ post.mode = "VBlank" THEN 1 ELSE 0

\* the CPU slot r stored to an IO register
StoresToIo(r, instr) ==
    /\ r.did = "instr"
    /\ instr.op \in {"ldh_imm8mem_a", "ld_imm16mem_a"}
    /\ instr.addr >= UNUSABLE_SPACE_END
    /\ instr.addr < IO_REGISTERS_END

ObsStore(st, r, instr) ==
    IF StoresToIo(r, instr)
    THEN [some |-> TRUE, addr |-> instr.addr, a |-> instr.a, age |-> 0,
          dec |-> <<r.dec>>]
    ELSE IF st.some THEN [st EXCEPT !.age = @ + 1]
    ELSE st

ObsDma(d, st, r, instr) ==
    IF StoresToIo(r, instr) /\ instr.addr = REG_DMA
    THEN [d EXCEPT !.writes = @ + 1,
                   !.a = IF d.writes = 0 THEN instr.a ELSE @,
                   !.same = @ /\ (d.writes = 0 \/ instr.a = d.a)]
    ELSE IF st.some /\ st.addr = REG_DMA /\ st.age = OAM_DMA_TRANSFER_TICKS
            /\ d.writes = 1 /\ ~r.e.panicked
    THEN [d EXCEPT !.done = TRUE, !.oam = r.e.oam]
    ELSE d

ObsHalt(h, r, instr) ==
    IF InterruptBits(r.dec) # 0 THEN FALSE
    ELSE IF r.did = "instr" /\ instr.op = "halt" THEN TRUE
    ELSE h

\* obs after a run_tick that took pre to r.e, executing instr if it fetched
ObsTick(o, pre, r, instr) ==
    LET used == r.did # "none"
        op == IF r.did = "instr" THEN instr.op ELSE ""
        slot == [did |-> r.did,
                 op |-> op,
                 addr |-> IF r.did = "instr" THEN instr.addr ELSE 0,
                 ime |-> r.dec.interrupts_enabled,
                 pending |-> r.dec.pending_enable_interrupts,
                 ie |-> r.dec.ie,
                 iflags |-> IfReg(r.dec),
                 pc |-> r.dec.pc,
                 gap |-> o.idle + 1]
        store == ObsStore(o.store, r, instr)
    IN  [o EXCEPT
            !.at = "tick",
            !.ticks = @ + 1,
            !.frame_ticks = @ + 1,
            !.loaded = @ \/ r.loaded,
            !.vblank_entries = @ + BecameVblank(pre, r.e),
            !.slots = IF used THEN @ + 1 ELSE @,
            !.idle = IF used THEN 0 ELSE @ + 1,
            !.hist = IF used THEN KeepLast(Append(@, slot), HistLen) ELSE @,
            !.last = [did |-> r.did,
                      op |-> op,
                      ready |-> r.dec.ticks_to_next_instruction = 0,
                      ime |-> r.dec.interrupts_enabled,
                      ie |-> r.dec.ie,
                      iflags |-> IfReg(r.dec),
                      pc |-> r.dec.pc,
                      sp |-> r.dec.sp,
                      div |-> r.inp.full_divider_register,
                      tac |-> ReadIoRegister(r.inp, REG_TAC),
                      tima |-> IoRaw(r.inp, REG_TIMA),
                      tma |-> IoRaw(r.inp, REG_TMA),
                      if0 |-> IfReg(r.inp),
                      dec_tima |-> IoRaw(r.dec, REG_TIMA)],
            !.store = store,
            !.dma = ObsDma(@, store, r, instr),
            !.halt_pending = ObsHalt(@, r, instr)]

\* enter_hblank took pre to post and started a block of an HBlank VRAM DMA
StartedHblankBlock(pre, post) ==
    /\ pre.current_hblank_vram_dma_transfer.some
    /\ post.current_hblank_vram_dma_transfer.some
    /\ post.current_hblank_vram_dma_transfer.in_block
    /\ post.current_hblank_vram_dma_transfer.num_blocks_left
          = pre.current_hblank_vram_dma_transfer.num_blocks_left - 1

\* obs after a step of the scheduler that took pre to post
\* the scanline has a pixel of the window: the window is displayed, WY is
\* not below the scanline and WX - 7 is not past the right edge
RendersWindowPixel(e, scanline) ==
    /\ IsBitSet(IoRaw(e, REG_LCDC), 5)
    /\ e.in_cgb_mode \/ IsBitSet(IoRaw(e, REG_LCDC), 0)
    /\ IoRaw(e, REG_WY) <= scanline
    /\ IoRaw(e, REG_WX) - 7 <= SCREEN_WIDTH - 1

\* window_lines: the scanlines drawn with a window pixel since the last
\* VBlank entry
ObsSched(o, pre, post) ==
    [o EXCEPT !.at = "sched",
              !.window_lines =
                  IF pre.mode # "VBlank" /\ post.mode = "VBlank" THEN 0
                  ELSE IF pre.mode # "Draw" /\ post.mode = "Draw"
                          /\ RendersWindowPixel(post, post.scanline)
                  THEN @ + 1
                  ELSE @,
              !.vblank_entries = @ + BecameVblank(pre, post),
              !.hblank_block =
                  IF pre.mode # "HBlank" /\ post.mode = "HBlank"
                  THEN StartedHblankBlock(pre, post)
                  ELSE @]

\* ------------------------------------------------------------------ actions

SchedInit == [pc |-> "boot", i |-> 0, k |-> 0, frames |-> 0]

HostInit == [queue |-> <<>>, saves |-> [s \in 0..(NUM_QUICK_SAVE_SLOTS - 1) |-> NoSnapshot]]

\* run(): emulate_boot_sequence, then the frame loop
Boot ==
    /\ sched.pc = "boot"
    /\ emu' = EmulateBootSequence(emu)
    /\ sched' = [sched EXCEPT !.pc = "frame"]
    /\ obs' = ObsSched(obs, emu, emu')
    /\ UNCHANGED <<host, prog>>

\* run_frame: tick = 0, then the loop over the scanlines
RunFrame ==
    /\ sched.pc = "frame"
    /\ sched.frames < MaxFrames
    /\ ~emu.panicked
    /\ emu' = [emu EXCEPT !.tick = 0]
    /\ sched' = [sched EXCEPT !.pc = "scanline", !.i = 0, !.k = 0]
    /\ obs' = [ObsSched(obs, emu, emu') EXCEPT !.frame_ticks = 0,
                                                !.loaded = FALSE,
                                                !.vblank_entries = 0]
    /\ UNCHANGED <<host, prog>>

\* run_scanline(i) up to its first loop, for the scanlines below lines
RunScanlineBelow(lines) ==
    /\ sched.pc = "scanline"
    /\ sched.i < lines
    /\ ~emu.panicked
    /\ emu' = RunScanlineHead(emu, sched.i)
    /\ sched' = [sched EXCEPT
                    !.pc = IF sched.i < SCREEN_HEIGHT THEN "oam_scan" ELSE "vblank",
                    !.k = IF sched.i < SCREEN_HEIGHT THEN OAM_SCAN_TICKS
                          ELSE TICKS_PER_SCANLINE]
    /\ obs' = ObsSched(obs, emu, emu')
    /\ UNCHANGED <<host, prog>>

RunScanline == RunScanlineBelow(NUM_VIRTUAL_SCANLINES)

\* run_scanline between the OAM scan loop and the draw loop
EnterDraw ==
    /\ sched.pc = "oam_scan"
    /\ sched.k = 0
    /\ ~emu.panicked
    /\ emu' = DrawScanline(SetMode(emu, "Draw"), emu.scanline)
    /\ sched' = [sched EXCEPT !.pc = "draw", !.k = DRAW_TICKS]
    /\ obs' = ObsSched(obs, emu, emu')
    /\ UNCHANGED <<host, prog>>

\* run_scanline between the draw loop and the HBlank loop
EnterHblankLoop ==
    /\ sched.pc = "draw"
    /\ sched.k = 0
    /\ ~emu.panicked
    /\ emu' = EnterHblank(emu)
    /\ sched' = [sched EXCEPT !.pc = "hblank", !.k = HBLANK_TICKS]
    /\ obs' = ObsSched(obs, emu, emu')
    /\ UNCHANGED <<host, prog>>

\* the end of run_scanline: back in run_frame's loop
NextScanline ==
    /\ sched.pc \in {"hblank", "vblank"}
    /\ sched.k = 0
    /\ ~emu.panicked
    /\ sched' = [sched EXCEPT !.pc = "scanline", !.i = @ + 1]
    /\ obs' = ObsSched(obs, emu, emu)
    /\ UNCHANGED <<emu, host, prog>>

\* microframes_per_frame
MicroframesPerFrame(e) == IF e.in_turbo_mode THEN 1 ELSE TURBO_MULTIPLIER

\* the end of run_frame: back in run()'s loop, which counts the frame in
\* microframes (the host keeping up with the frame rate, no frame is skipped)
EndFrame ==
    /\ sched.pc = "scanline"
    /\ sched.i = NUM_VIRTUAL_SCANLINES
    /\ ~emu.panicked
    /\ emu' = [emu EXCEPT !.microframe = @ + MicroframesPerFrame(emu)]
    /\ sched' = [sched EXCEPT !.pc = "frame", !.frames = @ + 1]
    /\ obs' = ObsSched(obs, emu, emu')
    /\ UNCHANGED <<host, prog>>

\* One run_tick inside one of run_scanline's loops.  The instruction at an
\* address the program has not fixed yet is any of instrs; slot_limit bounds
\* the number of CPU slots the run uses.
TickWith(instrs, slot_limit) ==
    /\ sched.k > 0
    /\ ~emu.panicked
    /\ LET w == BeforeCpuSlot(emu, host.saves, host.queue)
           fetches == CpuSlot(w.e, Nop).did = "instr"
           fetch_pc == w.e.pc
           choices == IF ~fetches THEN {Nop}
                      ELSE IF fetch_pc \in DOMAIN prog THEN {prog[fetch_pc]}
                      ELSE instrs
       IN  \E instr \in choices :
             LET r == RunTickFrom(w, instr)
             IN  /\ r.did # "none" => obs.slots < slot_limit
                 /\ emu' = r.e
                 /\ host' = [queue |-> <<>>, saves |-> r.saves]
                 /\ prog' = IF fetches /\ fetch_pc \notin DOMAIN prog
                               /\ instrs # {Nop}
                            THEN (fetch_pc :> instr) @@ prog
                            ELSE prog
                 /\ sched' = [sched EXCEPT !.k = @ - 1]
                 /\ obs' = ObsTick(obs, emu, r, instr)

\* ----------------------------------------- specification: the CPU's slots

\* Every program over CpuInstrs, from power-on, for its first MaxSlots CPU
\* slots.
IE_VALUES == {1, 24, 31}
IF_VALUES == {20, 30}

CpuInstrs ==
    {Nop, Ei, Di, Halt, Reti}
        \cup {Ldh(IE_ADDRESS, v) : v \in IE_VALUES}
        \cup {Ldh(REG_IF, v) : v \in IF_VALUES}

InitCpu ==
    /\ emu = InitialState("Dmg", 0)
    /\ sched = SchedInit
    /\ host = HostInit
    /\ prog = NoProgram
    /\ obs = ObsInit

CpuTick == TickWith(CpuInstrs, MaxSlots)

NextCpu == Boot \/ RunFrame \/ RunScanline \/ CpuTick

SpecCpu == InitCpu /\ [][NextCpu]_vars

\* ------------------------------------------------- properties of the CPU slot

\* the pending interrupts a CPU slot decided on: IE & IF & 0x1F
PendingBits(slot) == BitAnd(LowBits(slot.ie, 5), LowBits(slot.iflags, 5))

\* the number of the lowest set bit of bits
LowestBit(bits) ==
    CHOOSE n \in 0..4 : IsBitSet(bits, n) /\ \A m \in 0..(n - 1) : ~IsBitSet(bits, m)

\* the handler of interrupt bit n: 0x40, 0x48, 0x50, 0x58, 0x60
HandlerOfBit(n) == 64 + 8 * n

\* C1: whenever the instruction counter is zero with IME true and
\* IE & IF & 0x1F # 0, the CPU slot dispatches an interrupt instead of an
\* instruction: PC is the handler of the lowest set bit, exactly that IF bit
\* is cleared, IME is false, SP is two lower and (the stack lying in high RAM)
\* holds the interrupted PC, and the next CPU slot comes 20 ticks later.
C1_InterruptDispatch ==
    /\ (obs.at = "tick" /\ obs.last.ready /\ obs.last.ime
            /\ PendingBits(obs.last) # 0 /\ ~emu.panicked)
        => LET n == LowestBit(PendingBits(obs.last))
           IN  /\ obs.last.did = "interrupt"
               /\ emu.pc = HandlerOfBit(n)
               /\ LowBits(IfReg(emu), 5) = LowBits(obs.last.iflags, 5) - 2 ^ n
               /\ ~emu.interrupts_enabled
               /\ emu.sp = WrapU16(obs.last.sp + 65534)
               /\ emu.sp >= HRAM_START => StackTop(emu) = obs.last.pc
               /\ emu.ticks_to_next_instruction = 19
    /\ (Len(obs.hist) >= 2 /\ obs.hist[Len(obs.hist) - 1].did = "interrupt")
        => obs.hist[Len(obs.hist)].gap = 20

\* C1's case: the Timer and Joypad interrupts pending together with IME true,
\* and the Timer handler entered.
C1_Witness ==
    /\ obs.at = "tick"
    /\ obs.last.did = "interrupt"
    /\ obs.last.ime
    /\ PendingBits(obs.last) = 20
    /\ emu.pc = 80

\* ei executed with IE = 0x01, IF = 0x01, IME = 0 and no enable pending
EiCase(slot) ==
    /\ slot.did = "instr"
    /\ slot.op = "ei"
    /\ slot.ie = 1
    /\ LowBits(slot.iflags, 5) = 1
    /\ ~slot.ime
    /\ slot.pending = "None"

\* C2: with IE = 0x01, IF = 0x01, IME = 0, after ei IME stays false through
\* ei; the CPU slot after ei executes an instruction, never a handler; when
\* that instruction is a nop, IME is true exactly from the end of its last
\* tick; and the slot after the nop, 4 ticks later, dispatches the VBlank
\* handler in place of the instruction at the address after the nop.
C2_EiDelay ==
    LET h == obs.hist
        n == Len(obs.hist)
    IN  /\ (n >= 1 /\ EiCase(h[n])) => ~emu.interrupts_enabled
        /\ (n >= 2 /\ EiCase(h[n - 1])) => h[n].did = "instr"
        /\ (n >= 2 /\ EiCase(h[n - 1]) /\ h[n].op = "nop")
            => (emu.interrupts_enabled <=> emu.ticks_to_next_instruction = 0)
        /\ (n >= 3 /\ EiCase(h[n - 2]) /\ h[n - 1].op = "nop")
            => /\ h[n].did = "interrupt"
               /\ h[n].gap = 4
               /\ h[n].pc = h[n - 1].pc + 1
               /\ obs.idle = 0 => emu.pc = 64

\* C2's case: ei, nop, and the VBlank handler entered in the third slot.
C2_Witness ==
    /\ Len(obs.hist) = 3
    /\ EiCase(obs.hist[1])
    /\ obs.hist[2].op = "nop"
    /\ obs.hist[3].did = "interrupt"
    /\ obs.idle = 0
    /\ emu.pc = 64

\* the slot is a second ei
SecondEi(slot) == slot.did = "instr" /\ slot.op = "ei"

\* C28: a second ei right after a first one (IE = 0x01, IF = 0x01, IME = 0)
\* does not put off the enable of the first: IME is true exactly from the end
\* of the second ei's last tick, and the slot after it, 4 ticks later,
\* dispatches the VBlank handler in place of the instruction X that follows;
\* the enable of the second ei is still pending then
C28_SecondEiKeepsFirstDelay ==
    LET h == obs.hist
        n == Len(obs.hist)
    IN  /\ (n >= 2 /\ EiCase(h[n - 1]) /\ SecondEi(h[n]))
            => /\ h[n].pending = "AfterCurrentInstruction"
               /\ emu.interrupts_enabled <=> emu.ticks_to_next_instruction = 0
        /\ (n >= 3 /\ EiCase(h[n - 2]) /\ SecondEi(h[n - 1]))
            => /\ h[n].did = "interrupt"
               /\ h[n].ime
               /\ h[n].pending = "AfterCurrentInstruction"
               /\ h[n].gap = 4
               /\ h[n].pc = h[n - 1].pc + 1
               /\ obs.idle = 0 => emu.pc = 64

\* C28 as the sentence has it: IME stays false through the second ei, and
\* the slot after the second ei executes X rather than entering a handler
C28_SecondEiRestartsDelay ==
    LET h == obs.hist
        n == Len(obs.hist)
    IN  /\ (n >= 2 /\ EiCase(h[n - 1]) /\ SecondEi(h[n]))
            => ~emu.interrupts_enabled
        /\ (n >= 3 /\ EiCase(h[n - 2]) /\ SecondEi(h[n - 1]))
            => (h[n].did = "instr" /\ ~h[n].ime)

\* ei, ei, and the VBlank handler entered in the third slot
C28_Witness ==
    /\ Len(obs.hist) = 3
    /\ EiCase(obs.hist[1])
    /\ SecondEi(obs.hist[2])
    /\ obs.hist[3].did = "interrupt"
    /\ obs.hist[3].pc = obs.hist[2].pc + 1
    /\ obs.idle = 0
    /\ emu.pc = 64

\* C3: after halt executes no instruction is fetched until IE & IF & 0x1F # 0:
\* the CPU slot that follows a halt executes an instruction only with an
\* interrupt pending.
C3_HaltStopsFetching ==
    LET h == obs.hist
        n == Len(obs.hist)
    IN  (n >= 2 /\ h[n - 1].did = "instr" /\ h[n - 1].op = "halt"
            /\ h[n].did = "instr")
        => PendingBits(h[n]) # 0

\* ------------------------------------------- specification: whole frames

\* Two cartridges run for MaxFrames frames while the host sends commands.
\*
\* FrameProgramDmg enables every STAT interrupt source, the timer at the
\* 16-tick rate, the VBlank, STAT and Timer interrupts, and starts an OAM DMA
\* transfer; its handlers return at once.  FrameProgramCgb runs on the CGB
\* and adds a general-purpose VRAM DMA of 2 blocks and an HBlank VRAM DMA of
\* 3 blocks.
FrameHandlers == Layout(<<Reti, Pad(7), Reti, Pad(7), Reti>>, 64)

FrameProgramDmg ==
    Layout(<<Ldh(REG_STAT, 120), Ldh(REG_TAC, 5), Ldh(IE_ADDRESS, 7), Ei,
             Ldh(REG_DMA, 193)>>, 256) @@ FrameHandlers

FrameProgramCgb ==
    Layout(<<Ldh(REG_STAT, 120), Ldh(IE_ADDRESS, 3), Ei,
             Ldh(REG_HDMA1, 192), Ldh(REG_HDMA2, 0),
             Ldh(REG_HDMA3, 0), Ldh(REG_HDMA4, 0),
             Ldh(REG_HDMA5, 1), Ldh(REG_HDMA5, 130)>>, 256) @@ FrameHandlers

FrameCartridges ==
    {[machine |-> "Dmg", cgb_byte |-> 0, prog |-> FrameProgramDmg],
     [machine |-> "Cgb", cgb_byte |-> 128, prog |-> FrameProgramCgb]}

\* The ticks of a frame after which the host sends: a QuickSave in the
\* HBlank of scanline 143, a LoadQuickSave on scanline 144, in VBlank.
SaveTicks == {143 * 456 + 262}
LoadTicks == {144 * 456 + 20}

\* The commands the host may send after the frame's n-th tick: it saves into
\* slot 0 while the slot is empty, and loads a filled slot once per frame.
HostCommandsAt(n) ==
    (IF n \in SaveTicks /\ host.saves[0] = NoSnapshot
     THEN {QuickSave(0)} ELSE {})
        \cup (IF n \in LoadTicks /\ host.saves[0] # NoSnapshot /\ ~obs.loaded
              THEN {LoadQuickSave(0)} ELSE {})

\* The host thread sends a command; the emulator handles it at the top of
\* its next run_tick.
HostSend ==
    /\ sched.k > 0
    /\ ~emu.panicked
    /\ host.queue = <<>>
    /\ \E command \in HostCommandsAt(obs.frame_ticks) :
            host' = [host EXCEPT !.queue = Append(@, command)]
    /\ UNCHANGED <<emu, sched, prog, obs>>

InitFrame ==
    /\ \E c \in FrameCartridges :
            /\ emu = InitialState(c.machine, c.cgb_byte)
            /\ prog = c.prog
    /\ sched = SchedInit
    /\ host = HostInit
    /\ obs = ObsInit

FrameTick == TickWith({Nop}, MaxFrames * TICKS_PER_FRAME)

NextFrame ==
    \/ Boot
    \/ RunFrame
    \/ RunScanline
    \/ EnterDraw
    \/ EnterHblankLoop
    \/ NextScanline
    \/ EndFrame
    \/ FrameTick
    \/ HostSend

SpecFrame == InitFrame /\ [][NextFrame]_vars

\* ------------------------------------------------- properties of the frame

\* C4: every frame is exactly 70224 ticks, 154 scanlines of 456 ticks:
\* whenever the scheduler stands between two scanlines or two frames, the
\* number of run_tick calls so far is 70224 for each completed frame plus 456
\* for each completed scanline of the current one, whatever the program, its
\* interrupts and DMA transfers, and the host's commands did.
C4_FrameTicks ==
    /\ sched.pc = "frame" => obs.ticks = 70224 * sched.frames
    /\ sched.pc = "scanline" => obs.ticks = 70224 * sched.frames + 456 * sched.i
    /\ sched.pc = "scanline" => obs.frame_ticks = 456 * sched.i

\* C4's case: two frames completed, the second with a LoadQuickSave handled
\* in it, the interrupts enabled and the timer running.
C4_Witness ==
    /\ sched.pc = "scanline"
    /\ sched.i = 154
    /\ sched.frames = MaxFrames - 1
    /\ obs.ticks = 70224 * MaxFrames
    /\ obs.loaded
    /\ emu.ie # 0

\* the mode the frame schedule dictates at tick t (from 0) of a frame
DictatedMode(t) ==
    IF t \div 456 >= 144 THEN "VBlank"
    ELSE IF t % 456 < 80 THEN "OamScan"
    ELSE IF t % 456 < 80 + 172 THEN "Draw"
    ELSE "HBlank"

ShortScanline == RunScanlineBelow(MaxScanlines)

\* The programs: after delay nops, TMA = 0x42, TIMA = tima, TAC = tac and a
\* write of DIV; gap nops later a second write of DIV.  The delays move the
\* first write of DIV over the phases of the divider, the gaps put the second
\* one where bit 3, 5, 7 or 9 of the divider is set.
TimerProgram(delay, tac, tima, gap) ==
    Layout(<<Pad(delay), Ldh(REG_TMA, 66), Ldh(REG_TIMA, tima),
             Ldh(REG_TAC, tac), Ldh(REG_DIV, 0), Pad(gap), Ldh(REG_DIV, 0)>>,
           256)

TimerPrograms ==
    {TimerProgram(delay, tac, tima, gap) :
        delay \in 0..3, tac \in {1, 4, 5, 6, 7}, tima \in {254, 255},
        gap \in {0, 6, 30, 126}}

InitTimer ==
    /\ emu = InitialState("Dmg", 0)
    /\ sched = SchedInit
    /\ host = HostInit
    /\ prog \in TimerPrograms
    /\ obs = ObsInit

TimerTick == TickWith({Nop}, MaxFrames * TICKS_PER_FRAME)

NextTimer ==
    \/ Boot
    \/ RunFrame
    \/ ShortScanline
    \/ EnterDraw
    \/ EnterHblankLoop
    \/ NextScanline
    \/ TimerTick

SpecTimer == InitTimer /\ [][NextTimer]_vars

\* ------------------------------------------------- properties of the timer

\* the divider bit selected by TAC's low two bits: 9, 3, 5, 7 for 0, 1, 2, 3
TacSelectedBit(tac) ==
    CASE tac % 4 = 0 -> 9
      [] tac % 4 = 1 -> 3
      [] tac % 4 = 2 -> 5
      [] tac % 4 = 3 -> 7

\* in the tick observed by l the timer is enabled and the divider's advance
\* takes the selected bit from 1 to 0
TimerBitFalls(l) ==
    /\ IsBitSet(l.tac, 2)
    /\ IsBitSet(l.div, TacSelectedBit(l.tac))
    /\ ~IsBitSet(WrapU16(l.div + 1), TacSelectedBit(l.tac))

\* DIV was the last IO register written, with TAC = 0x05, TIMA = 0xFF,
\* TMA = 0x42 and IF bit 2 clear
TimerScenario ==
    /\ obs.store.some
    /\ obs.store.addr = REG_DIV
    /\ ReadIoRegister(obs.store.dec[1], REG_TAC) = 5
    /\ IoRaw(obs.store.dec[1], REG_TIMA) = 255
    /\ IoRaw(obs.store.dec[1], REG_TMA) = 66
    /\ ~IsBitSet(IfReg(obs.store.dec[1]), 2)

\* C6: TAC reads back the low three bits written to it; in every tick the
\* timer takes TIMA one up exactly when it is enabled and the divider's
\* advance makes the bit selected by TAC's low bits (9, 3, 5, 7) fall, going
\* from 0xFF to TMA with IF bit 2 set, and leaves TIMA and IF alone in every
\* other tick, the ticks in which DIV or TAC are written included; only a
\* store to TIMA changes TIMA otherwise.  After a write of DIV with
\* TAC = 0x05, TIMA = 0xFF, TMA = 0x42 the divider is 0, TIMA stays 0xFF with
\* IF bit 2 clear for 15 ticks, and after the 16th TIMA = 0x42 and IF bit 2
\* is set.
C6_TimerIncrements ==
    /\ (obs.store.some /\ obs.store.addr = REG_TAC)
        => ReadIoRegister(emu, REG_TAC) = LowBits(obs.store.a, 3)
    /\ obs.at = "tick"
        => /\ (TimerBitFalls(obs.last) /\ obs.last.tima # 255)
                => /\ obs.last.dec_tima = obs.last.tima + 1
                   /\ obs.last.iflags = obs.last.if0
           /\ (TimerBitFalls(obs.last) /\ obs.last.tima = 255)
                => /\ obs.last.dec_tima = obs.last.tma
                   /\ obs.last.iflags = BitOr(obs.last.if0, 4)
           /\ ~TimerBitFalls(obs.last)
                => /\ obs.last.dec_tima = obs.last.tima
                   /\ obs.last.iflags = obs.last.if0
           /\ ~(obs.store.some /\ obs.store.age = 0 /\ obs.store.addr = REG_TIMA)
                => IoRaw(emu, REG_TIMA) = obs.last.dec_tima
    /\ TimerScenario
        => /\ obs.store.age = 0 => emu.full_divider_register = 0
           /\ obs.store.age < 16
                => IoRaw(emu, REG_TIMA) = 255 /\ ~IsBitSet(IfReg(emu), 2)
           /\ obs.store.age = 16
                => IoRaw(emu, REG_TIMA) = 66 /\ IsBitSet(IfReg(emu), 2)

\* C6's case: the 16th tick after a write of DIV that found bit 3 of the
\* divider set, with TAC = 0x05, TIMA = 0xFF, TMA = 0x42.
C6_Witness ==
    /\ TimerScenario
    /\ IsBitSet(obs.store.dec[1].full_divider_register, 3)
    /\ obs.store.age = 16
    /\ obs.last.tima = 255
    /\ IoRaw(emu, REG_TIMA) = 66
    /\ IsBitSet(IfReg(emu), 2)

\* ------------------------------------------ specification: the DMA engines

\* Programs of a CGB cartridge, run for MaxScanlines scanlines.  They store
\* 1, 2 and 159 at 0xC101, 0xC102 and 0xC19F and then
\*   OamProgram  write the DMA register, and again gap nops later: with gap
\*               0 and 157 the second write comes 12 and 640 ticks after the
\*               first, with 158 it comes 644 ticks after; the source pages
\*               are ROM, VRAM, work RAM and echo RAM;
\*   GpProgram   write HDMA1..HDMA4 and start a general-purpose transfer of n
\*               blocks, with or without the STAT interrupt enabled; after
\*               pad nops the freeze of 2 or 3 blocks spans an HBlank entry;
\*   HbProgram   the same with an HBlank transfer of n blocks.
\* The sources are ROM 0x0200 (HDMA2's low nibble set) and work RAM 0xC100,
\* the destinations 0x8000 and 0x9FF0 (HDMA3 and HDMA4 all ones).
WorkRamSetup == <<Ld16(49409, 1), Ld16(49410, 2), Ld16(49567, 159)>>

OamProgram(xx, gap) ==
    Layout(WorkRamSetup \o <<Ldh(REG_DMA, xx), Pad(gap), Ldh(REG_DMA, xx)>>, 256)

StatInterruptSetup(on) ==
    IF on THEN <<Ldh(REG_STAT, 120), Ldh(IE_ADDRESS, 2), Ei>> ELSE <<>>

VramDmaProgram(on, pad, src, dst, hdma5) ==
    Layout(StatInterruptSetup(on) \o WorkRamSetup
               \o <<Pad(pad), Ldh(REG_HDMA1, src[1]), Ldh(REG_HDMA2, src[2]),
                    Ldh(REG_HDMA3, dst[1]), Ldh(REG_HDMA4, dst[2]),
                    Ldh(REG_HDMA5, hdma5)>>, 256) @@ FrameHandlers

VramDmaSources == {<<2, 15>>, <<193, 0>>}
VramDmaDests == {<<0, 0>>, <<255, 255>>}

GpPrograms ==
    {VramDmaProgram(on, pad, src, dst, n - 1) :
        on \in BOOLEAN, pad \in {0, 30}, src \in VramDmaSources,
        dst \in VramDmaDests, n \in 1..3}

HbPrograms ==
    {VramDmaProgram(on, 0, src, dst, 128 + n - 1) :
        on \in BOOLEAN, src \in VramDmaSources, dst \in VramDmaDests,
        n \in {1, 3}}

OamPrograms ==
    {OamProgram(xx, gap) : xx \in {2, 128, 193, 224}, gap \in {0, 157, 158}}

\* OverwritePrograms write 0xC1 to the DMA register and, gap nops later,
\* store 77 at 0xC101, inside the page being transferred
OverwriteProgram(gap) ==
    Layout(WorkRamSetup \o <<Ldh(REG_DMA, 193), Pad(gap), Ld16(49409, 77)>>, 256)

OverwritePrograms == {OverwriteProgram(gap) : gap \in {0, 100}}

\* TerminatePrograms start an HBlank transfer of 3 blocks and, gap nops
\* later, write hdma5 (bit 7 clear) to HDMA5: with gap 0 before the first
\* block, with gap 50 after it, with gap 160 after the second.
TerminateProgram(src, gap, hdma5) ==
    Layout(WorkRamSetup
               \o <<Ldh(REG_HDMA1, src[1]), Ldh(REG_HDMA2, src[2]),
                    Ldh(REG_HDMA3, 0), Ldh(REG_HDMA4, 0),
                    Ldh(REG_HDMA5, 130), Pad(gap), Ldh(REG_HDMA5, hdma5)>>, 256)

\* HaltPrograms start an HBlank transfer of 3 blocks and execute halt, with
\* no interrupt enabled or with the STAT interrupt of every mode change.
HaltProgram(on, src) ==
    Layout(StatInterruptSetup(on) \o WorkRamSetup
               \o <<Ldh(REG_HDMA1, src[1]), Ldh(REG_HDMA2, src[2]),
                    Ldh(REG_HDMA3, 0), Ldh(REG_HDMA4, 0),
                    Ldh(REG_HDMA5, 130), Halt>>, 256) @@ FrameHandlers

HaltPrograms == {HaltProgram(on, src) : on \in BOOLEAN, src \in VramDmaSources}

TerminatePrograms ==
    {TerminateProgram(src, gap, hdma5) :
        src \in VramDmaSources, gap \in {0, 50, 160}, hdma5 \in {0, 1, 2, 3}}

\* EiFreezePrograms start an HBlank transfer of one block and execute ei
\* pad nops later, with the STAT interrupt of every mode change enabled in
\* IE or not: with pad 41 the ei ends with tick 251, the last tick before the
\* HBlank of scanline 0 and its block; with pad 10 it ends long before.
EiFreezeProgram(ie, pad) ==
    Layout(<<Ldh(REG_STAT, 120), Ldh(IE_ADDRESS, ie),
             Ldh(REG_HDMA1, 193), Ldh(REG_HDMA2, 0),
             Ldh(REG_HDMA3, 0), Ldh(REG_HDMA4, 0),
             Ldh(REG_HDMA5, 128), Pad(pad), Ei>>, 256) @@ FrameHandlers

EiFreezePrograms ==
    {EiFreezeProgram(ie, pad) : ie \in {0, 2}, pad \in {10, 41}}

InitDma ==
    /\ emu = InitialState("Cgb", 128)
    /\ sched = SchedInit
    /\ host = HostInit
    /\ prog \in OamPrograms \cup GpPrograms \cup HbPrograms
                \cup TerminatePrograms \cup HaltPrograms
                \cup OverwritePrograms \cup EiFreezePrograms
    /\ obs = ObsInit

DmaTick == TickWith({Nop}, MaxFrames * TICKS_PER_FRAME)

NextDma ==
    \/ Boot
    \/ RunFrame
    \/ ShortScanline
    \/ EnterDraw
    \/ EnterHblankLoop
    \/ NextScanline
    \/ DmaTick

SpecDma == InitDma /\ [][NextDma]_vars

\* ------------------------------------------- properties of the DMA engines

\* the last IO register written is the DMA register, and the emulator has
\* not aborted
OamDmaWritten ==
    /\ obs.store.some
    /\ obs.store.addr = REG_DMA
    /\ ~emu.panicked

\* OAM[i] equals the byte at page * 0x100 + i for every i in 0..160
OamHoldsPage(e, page) ==
    \A i \in 0..(160 - 1) :
        ReadAddress(e, OAM_START + i) = ReadAddress(e, page * 256 + i)

\* C7: after a write of XX to the DMA register the transfer is in progress
\* for the 639 ticks that follow the tick of the write, and at the end of the
\* 640th OAM[i] equals the byte at 0xXX00 + i for every i in 0..160 and the
\* transfer is over.
C7_OamDma ==
    OamDmaWritten
        => /\ obs.store.age < 640 => emu.current_oam_dma_transfer.some
           /\ obs.store.age = 640
                => /\ OamHoldsPage(emu, obs.store.a)
                   /\ ~emu.current_oam_dma_transfer.some

\* C7's case: 640 ticks after DMA = 0xC1, with 0xC100 + i = i for i = 1, 2,
\* 159, OAM holds those bytes.
C7_Witness ==
    /\ OamDmaWritten
    /\ obs.store.a = 193
    /\ obs.store.age = 640
    /\ ReadAddress(emu, OAM_START + 1) = 1
    /\ ReadAddress(emu, OAM_START + 2) = 2
    /\ ReadAddress(emu, OAM_START + 159) = 159
    /\ ReadAddress(emu, OAM_START) = 0

\* C8: when the same source byte is written to the DMA register a second
\* time, however many ticks after the first, the second write also has its
\* completion point 640 ticks later, and OAM there is what it was at the
\* first one's.
C8_OamDmaTwice ==
    (obs.dma.writes = 2 /\ obs.dma.same)
        => /\ ~emu.panicked
           /\ (obs.store.addr = REG_DMA /\ obs.store.age = 640)
                => /\ OamHoldsPage(emu, obs.dma.a)
                   /\ obs.dma.done => emu.oam = obs.dma.oam

\* The part of C8 that holds: a second write of the same byte that comes
\* after the first transfer has completed yields the same OAM again.
C8_OamDmaTwiceAfterCompletion ==
    (obs.dma.writes = 2 /\ obs.dma.same /\ obs.dma.done)
        => /\ ~emu.panicked
           /\ (obs.store.addr = REG_DMA /\ obs.store.age = 640)
                => /\ OamHoldsPage(emu, obs.dma.a)
                   /\ emu.oam = obs.dma.oam

\* the emulator as the store to the DMA register found it
DmaWriteState == obs.store.dec[1]

\* a single write of the DMA register, obs.store.age ticks ago
OneOamDma == OamDmaWritten /\ obs.dma.writes = 1

\* C27: the OAM DMA copy is performed at completion rather than at the start:
\* OAM is as it was for the 639 ticks after the tick of the write and at the
\* end of the 640th receives the source bytes as they then are, so that a
\* write to the source region during the transfer changes the resulting OAM
C27_OamDmaCopiesAtCompletion ==
    OneOamDma =>
        /\ obs.store.age < 640 => emu.oam = DmaWriteState.oam
        /\ obs.store.age = 640 => OamHoldsPage(emu, obs.store.a)
        /\ obs.store.age >= 640 => (obs.dma.done /\ emu.oam = obs.dma.oam)

\* C27 as the sentence has it: OAM receives the source bytes as they were
\* when the DMA register was written
C27_OamDmaCopiesAtStart ==
    (OneOamDma /\ obs.store.age >= 640) =>
        \A i \in 0..(OAM_SIZE - 1) :
            ReadAddress(emu, OAM_START + i)
                = ReadAddress(DmaWriteState, obs.store.a * 256 + i)

\* 0xC101 held 1 when DMA = 0xC1 was written and 77 was stored there during
\* the transfer: OAM[1] is 77
C27_Witness ==
    /\ OneOamDma
    /\ obs.store.a = 193
    /\ obs.store.age = 640
    /\ ReadAddress(DmaWriteState, 49409) = 1
    /\ ReadAddress(emu, 49409) = 77
    /\ ReadAddress(emu, OAM_START + 1) = 77
    /\ ReadAddress(emu, OAM_START + 2) = 2

\* a general-purpose transfer was started by the last IO store: HDMA5 written
\* with bit 7 clear while no HBlank transfer was active
GpDmaWritten ==
    /\ obs.store.some
    /\ obs.store.addr = REG_HDMA5
    /\ obs.store.a < 128
    /\ ~obs.store.dec[1].current_hblank_vram_dma_transfer.some
    /\ ~emu.panicked

\* (HDMA1||HDMA2) & 0xFFF0 and ((HDMA3||HDMA4) & 0x1FF0) | 0x8000
VramDmaSourceOf(e) ==
    ((IoRaw(e, REG_HDMA1) * 256 + IoRaw(e, REG_HDMA2)) \div 16) * 16

VramDmaDestOf(e) ==
    (((IoRaw(e, REG_HDMA3) * 256 + IoRaw(e, REG_HDMA4)) % 8192) \div 16) * 16
        + 32768

\* C9: after HDMA5 is written with bit 7 clear and no HBlank transfer active,
\* N = (low 7 bits) + 1: the N * 16 bytes at the destination are the bytes of
\* the source; the CPU is stopped, and no instruction executes, in each of
\* the 32 * N ticks that follow the tick of the write; at the end of the last
\* of them the CPU is released and HDMA5 reads 0xFF; and the CPU slot of the
\* tick after that is used.
C9_GeneralPurposeDma ==
    GpDmaWritten
        => LET n == (obs.store.a % 128) + 1
               age == obs.store.age
           IN  /\ age <= 32 * n
                    => \A j \in 0..(n * 16 - 1) :
                          ReadAddress(emu, VramDmaDestOf(obs.store.dec[1]) + j)
                            = ReadAddress(obs.store.dec[1],
                                          VramDmaSourceOf(obs.store.dec[1]) + j)
               /\ age < 32 * n => emu.is_cpu_stopped_for_vram_dma
               /\ (age >= 1 /\ age <= 32 * n /\ obs.at = "tick")
                    => obs.last.did # "instr"
               /\ age = 32 * n
                    => /\ ~emu.is_cpu_stopped_for_vram_dma
                       /\ ReadAddress(emu, REG_HDMA5) = 255
               /\ (age = 32 * n + 1 /\ obs.at = "tick" /\ obs.last.ready)
                    => obs.last.did # "none"

\* C9's case: the end of the 64th tick after HDMA5 = 0x01 with the source in
\* ROM: 32 bytes copied, the CPU released, HDMA5 = 0xFF.
C9_Witness ==
    /\ GpDmaWritten
    /\ obs.store.a = 1
    /\ obs.store.age = 64
    /\ VramDmaSourceOf(emu) = 512
    /\ VramDmaDestOf(emu) = 32768
    /\ ReadAddress(emu, 32768 + 31) = RomByte(512 + 31)
    /\ ReadAddress(emu, REG_HDMA5) = 255
    /\ ~emu.is_cpu_stopped_for_vram_dma

\* the step is run_scanline's call of enter_hblank
HblankEntryStep == sched.pc = "draw" /\ sched'.pc = "hblank"

\* the step is a run_tick whose CPU slot stores to HDMA5
Hdma5StoreStep ==
    /\ obs'.ticks = obs.ticks + 1
    /\ obs'.store.age = 0
    /\ obs'.store.addr = REG_HDMA5

\* what C10 says of one step
HblankDmaStep ==
    LET t == emu.current_hblank_vram_dma_transfer
        u == emu'.current_hblank_vram_dma_transfer
        k == t.total_num_blocks - t.num_blocks_left
    IN  /\ (HblankEntryStep /\ t.some /\ ~emu.is_cpu_halted)
            => /\ u.some
               /\ u.num_blocks_left = t.num_blocks_left - 1
               /\ \A j \in 0..(16 * t.total_num_blocks - 1) :
                     ReadAddress(emu', t.dest + j) =
                        IF j \div 16 = k
                        THEN ReadAddress(emu, t.source + j)
                        ELSE ReadAddress(emu, t.dest + j)
        /\ (~HblankEntryStep /\ t.some /\ u.some /\ ~Hdma5StoreStep)
            => u.num_blocks_left = t.num_blocks_left
        /\ (u.some /\ ~u.in_block /\ u.num_blocks_left < u.total_num_blocks)
            => LowBits(ReadAddress(emu', REG_HDMA5), 7) = u.num_blocks_left
        /\ (u.some /\ u.num_blocks_left = 0)
            => u.in_block /\ sched'.pc = "hblank"
        /\ (t.some /\ ~u.some /\ ~Hdma5StoreStep)
            => /\ t.num_blocks_left = 0
               /\ ReadAddress(emu', REG_HDMA5) = 255

\* C10: while an HBlank transfer of N blocks is active, each entry into
\* HBlank copies block k, the next one, from source + 16k to dest + 16k and
\* touches no other block, and no other step moves the block count; between
\* blocks the low 7 bits of HDMA5 are the number of blocks left; the N-th
\* block's transfer ends within its HBlank, and when it ends HDMA5 reads
\* 0xFF.
C10_HblankDma == [][HblankDmaStep]_vars

\* C10's case: an HBlank transfer of 3 blocks from ROM 0x0200 to 0x8000 with
\* two blocks done: one block left, HDMA5 = 0x01, the second block in VRAM.
C10_Witness ==
    /\ emu.current_hblank_vram_dma_transfer.some
    /\ emu.current_hblank_vram_dma_transfer.total_num_blocks = 3
    /\ emu.current_hblank_vram_dma_transfer.num_blocks_left = 1
    /\ ~emu.current_hblank_vram_dma_transfer.in_block
    /\ emu.current_hblank_vram_dma_transfer.source = 512
    /\ emu.current_hblank_vram_dma_transfer.dest = 32768
    /\ ReadAddress(emu, REG_HDMA5) = 1
    /\ ReadAddress(emu, 32768 + 31) = RomByte(512 + 31)
    /\ ReadAddress(emu, 32768 + 32) = 0

\* the number of run_tick calls made so far in the HBlank of this scanline
HblankTicksDone == HBLANK_TICKS - sched.k

\* the tick just made is one of an HBlank whose entry transferred a block
InHblankOfBlock ==
    /\ sched.pc = "hblank"
    /\ obs.at = "tick"
    /\ obs.hblank_block
    /\ ~emu.panicked

\* C11: in an HBlank whose entry transferred a block of an HBlank VRAM DMA
\* no instruction executes in the first 32 ticks, and the CPU slot of the
\* 33rd tick is used when the instruction before the freeze is over.
C11_HblankBlockFreeze ==
    InHblankOfBlock
        => /\ HblankTicksDone <= 32 => obs.last.did # "instr"
           /\ (HblankTicksDone = 33 /\ obs.last.ready) => obs.last.did # "none"

\* What the code does instead: the freeze covers 33 ticks, and the CPU slot
\* of the 34th is the first one used.
C11_HblankBlockFreeze33 ==
    InHblankOfBlock
        => /\ HblankTicksDone <= 33 => obs.last.did # "instr"
           /\ HblankTicksDone <= 32 => emu.is_cpu_stopped_for_vram_dma
           /\ HblankTicksDone = 33 => ~emu.is_cpu_stopped_for_vram_dma
           /\ (HblankTicksDone = 34 /\ obs.last.ready) => obs.last.did # "none"

\* the last IO store wrote HDMA5 with bit 7 clear while an HBlank transfer
\* was active
HblankDmaTerminated ==
    /\ obs.store.some
    /\ obs.store.addr = REG_HDMA5
    /\ obs.store.a < 128
    /\ obs.store.dec[1].current_hblank_vram_dma_transfer.some
    /\ ~emu.panicked

\* the transfer the write ended, and the bytes of its blocks not yet copied
TerminatedTransfer == obs.store.dec[1].current_hblank_vram_dma_transfer

RemainingBlockBytes ==
    (16 * (TerminatedTransfer.total_num_blocks
             - TerminatedTransfer.num_blocks_left))
        ..(16 * TerminatedTransfer.total_num_blocks - 1)

\* what C12 says besides the value of HDMA5: no transfer is left, the CPU is
\* not frozen, and the destinations of the remaining blocks stay as they were
TerminatedQuietly ==
    /\ ~emu.current_hblank_vram_dma_transfer.some
    /\ ~emu.current_general_purpose_vram_dma_transfer.some
    /\ ~emu.is_cpu_stopped_for_vram_dma
    /\ \A j \in RemainingBlockBytes :
          ReadAddress(emu, TerminatedTransfer.dest + j)
            = ReadAddress(obs.store.dec[1], TerminatedTransfer.dest + j)

\* C12: after HDMA5 is written with bit 7 clear while an HBlank transfer is
\* active, the transfer is over, no general-purpose one has started, the CPU
\* is not frozen, no further block is copied, and HDMA5 reads 0x80 | the
\* number of blocks that were left.
C12_HblankDmaTerminate ==
    HblankDmaTerminated
        => /\ TerminatedQuietly
           /\ ReadAddress(emu, REG_HDMA5)
                = BitOr(TerminatedTransfer.num_blocks_left, 128)

\* What the code does instead: HDMA5 reads 0x80 | the byte just written.
C12_HblankDmaTerminateWritten ==
    HblankDmaTerminated
        => /\ TerminatedQuietly
           /\ ReadAddress(emu, REG_HDMA5) = BitOr(obs.store.a, 128)

\* what C13 says of one step
HaltedHblankDmaStep ==
    LET t == emu.current_hblank_vram_dma_transfer
        u == emu'.current_hblank_vram_dma_transfer
    IN  /\ (obs.halt_pending /\ obs'.halt_pending /\ t.some
               /\ InterruptBits(emu) = 0 /\ InterruptBits(emu') = 0)
            => /\ u.some
               /\ u.num_blocks_left = t.num_blocks_left
               /\ \A j \in 0..(16 * t.total_num_blocks - 1) :
                     ReadAddress(emu', t.dest + j) = ReadAddress(emu, t.dest + j)
        /\ (HblankEntryStep /\ ~obs.halt_pending /\ t.some /\ ~emu.is_cpu_halted)
            => u.num_blocks_left = t.num_blocks_left - 1

\* C13: from a halt on, for as long as no interrupt is pending (IE & IF &
\* 0x1F = 0), an active HBlank VRAM DMA keeps its number of blocks left and copies nothing,
\* whatever HBlanks are entered; an HBlank entered with the CPU not halted
\* transfers the next block.
C13_HaltPausesHblankDma == [][HaltedHblankDmaStep]_vars

\* ------------------------------------------- specification: the PPU's modes

\* DMG cartridges run from power-on through the visible scanlines into
\* VBlank, PpuScanlines scanlines in all.  PpuProgram stores stat to STAT and
\* lyc to LYC, enables the VBlank and STAT interrupts and executes ei; its
\* handlers return at once, so that a requested IF bit is cleared again by
\* its dispatch.  The programs enable no STAT source, each source alone (the
\* LYC source with LYC at a visible scanline, at the first scanline of VBlank
\* and at a later one), and all of them.  With delay 0 the store to LYC
\* happens in scanline 0, with delay 120 in scanline 1.
PpuProgram(stat, delay, lyc) ==
    Layout(<<Ldh(REG_STAT, stat), Pad(delay), Ldh(REG_LYC, lyc),
             Ldh(IE_ADDRESS, 3), Ei>>, 256) @@ FrameHandlers

PpuPrograms ==
    {PpuProgram(sl[1], sl[2], sl[3]) :
        sl \in {<<0, 0, 1>>, <<8, 0, 0>>, <<16, 0, 2>>, <<32, 0, 145>>,
                <<64, 0, 2>>, <<64, 0, 144>>, <<64, 0, 145>>, <<120, 0, 1>>,
                <<64, 0, 0>>, <<64, 120, 1>>, <<0, 120, 1>>}}

InitPpu ==
    /\ emu = InitialState("Dmg", 0)
    /\ sched = SchedInit
    /\ host = HostInit
    /\ prog \in PpuPrograms
    /\ obs = ObsInit

PpuScanline == RunScanlineBelow(PpuScanlines)

PpuTick == TickWith({Nop}, MaxFrames * TICKS_PER_FRAME)

NextPpu ==
    \/ Boot
    \/ RunFrame
    \/ PpuScanline
    \/ EnterDraw
    \/ EnterHblankLoop
    \/ NextScanline
    \/ PpuTick

SpecPpu == InitPpu /\ [][NextPpu]_vars

\* the step is the start of run_scanline(sched.i), up to its first loop
ScanlineStartStep ==
    sched.pc = "scanline" /\ sched'.pc \in {"oam_scan", "vblank"}

\* the step is run_scanline's set_mode(Draw)
DrawEntryStep == sched.pc = "oam_scan" /\ sched'.pc = "draw"

\* IF after the flags of which are requested
IfAfterRequests(if0, lcd_stat, vblank) ==
    BitOr(BitOr(if0, IF lcd_stat THEN FLAG_LCD_STAT ELSE 0),
          IF vblank THEN FLAG_VBLANK ELSE 0)

\* what C14 says of one step
StatRequestStep ==
    LET stat == IoRaw(emu, REG_STAT)
        i == sched.i
        lyc_hit == IsBitSet(stat, 6) /\ i = IoRaw(emu, REG_LYC)
    IN  /\ ScanlineStartStep
            => /\ i < 144
                    => /\ emu'.mode = "OamScan"
                       /\ IfReg(emu')
                            = IfAfterRequests(IfReg(emu),
                                              lyc_hit \/ IsBitSet(stat, 5), FALSE)
               /\ i = 144
                    => /\ emu'.mode = "VBlank"
                       /\ IfReg(emu')
                            = IfAfterRequests(IfReg(emu),
                                              lyc_hit \/ IsBitSet(stat, 4), TRUE)
               /\ i > 144
                    => /\ emu'.mode = "VBlank"
                       /\ IfReg(emu') = IfAfterRequests(IfReg(emu), lyc_hit, FALSE)
        /\ DrawEntryStep
            => emu'.mode = "Draw" /\ IfReg(emu') = IfReg(emu)
        /\ HblankEntryStep
            => /\ emu'.mode = "HBlank"
               /\ IfReg(emu')
                    = IfAfterRequests(IfReg(emu), IsBitSet(stat, 3), FALSE)

\* C14: a mode transition requests the LCDSTAT bit of IF exactly when the
\* STAT source bit of the mode entered is set (bit 3 HBlank, bit 4 VBlank,
\* bit 5 OAM scan, none for Draw), the start of a scanline requests it
\* exactly when STAT bit 6 is set and the scanline equals LYC, and the entry
\* into VBlank requests the VBlank bit whatever STAT holds; IF changes in no
\* other way in these steps.
C14_StatRequests == [][StatRequestStep]_vars

\* C14's case: VBlank has just been entered with no STAT source enabled: the
\* VBlank bit of IF is set and the LCDSTAT bit is not.
C14_Witness ==
    /\ sched.pc = "vblank"
    /\ sched.i = 144
    /\ sched.k = TICKS_PER_SCANLINE
    /\ emu.mode = "VBlank"
    /\ LowBits(IoRaw(emu, REG_STAT), 7) \div 8 = 0
    /\ IsBitSet(IfReg(emu), 0)
    /\ ~IsBitSet(IfReg(emu), 1)

\* the tick just made stored to LYC
LycWritten ==
    /\ obs.at = "tick"
    /\ obs.store.some
    /\ obs.store.addr = REG_LYC
    /\ obs.store.age = 0
    /\ ~emu.panicked

\* C15: at the end of the tick of a store LYC := k, IF is what it was when
\* the CPU slot began, with the LCDSTAT bit set in addition if the scanline
\* equals k and STAT bit 6 is set.
C15_LycWrite ==
    LycWritten
        => LET dec == obs.store.dec[1]
               hit == dec.scanline = obs.store.a
                        /\ IsBitSet(IoRaw(dec, REG_STAT), 6)
           IN  /\ IoRaw(emu, REG_LYC) = obs.store.a
               /\ IfReg(emu) = IfAfterRequests(IfReg(dec), hit, FALSE)

\* C15's case: LYC := 1 stored in scanline 1 with STAT bit 6 set and the
\* LCDSTAT bit of IF clear: the bit is set at the end of the tick.
C15_Witness ==
    /\ LycWritten
    /\ obs.store.a = 1
    /\ obs.store.dec[1].scanline = 1
    /\ IsBitSet(IoRaw(emu, REG_STAT), 6)
    /\ ~IsBitSet(IfReg(obs.store.dec[1]), 1)
    /\ IsBitSet(IfReg(emu), 1)

\* bits lo..hi of the byte v
BitField(v, lo, hi) == (v \div (2 ^ lo)) % (2 ^ (hi - lo + 1))

\* C16: once the program has stored to STAT, a read of STAT returns bit 7
\* set, in bits 3..6 the enable bits of the byte last stored, bit 2 set iff
\* the scanline equals LYC, and in bits 0..1 the number of the PPU mode.
C16_StatRead ==
    (obs.store.some /\ ~emu.panicked)
        => LET v == ReadAddress(emu, REG_STAT)
           IN  /\ IsBitSet(v, 7)
               /\ BitField(v, 3, 6) = BitField(IoRaw(emu, REG_STAT), 3, 6)
               /\ IsBitSet(v, 2) <=> (emu.scanline = IoRaw(emu, REG_LYC))
               /\ BitField(v, 0, 1) = ModeByteValue(emu.mode)

\* What the code does instead: the byte last stored is ORed in whole, bits
\* 3..6 read as ones.
C16_StatReadRaw ==
    (obs.store.some /\ ~emu.panicked)
        => LET v == ReadAddress(emu, REG_STAT)
               raw == IoRaw(emu, REG_STAT)
           IN  /\ IsBitSet(v, 7)
               /\ BitField(v, 3, 6) = 15
               /\ IsBitSet(v, 2)
                    <=> (emu.scanline = IoRaw(emu, REG_LYC) \/ IsBitSet(raw, 2))
               /\ BitField(v, 0, 1)
                    = BitOr(ModeByteValue(emu.mode), BitField(raw, 0, 1))

\* --------------------------------------------- specification: memory stores

\* DMG cartridges that, after delay nops, store a byte to an address of VRAM,
\* external RAM, work RAM, echo RAM, OAM or high RAM: with delay 0 the store
\* executes during the OAM scan of scanline 0, with 25 during Draw, with 70
\* during HBlank.
MemProgram(delay, addr) == Layout(<<Pad(delay), Ld16(addr, 77)>>, 256)

MemAddresses == {32768, 40959, 40960, 49152, 53248, 57344, 65024, 65408}

MemPrograms ==
    {MemProgram(delay, addr) : delay \in {0, 25, 70}, addr \in MemAddresses}

\* Cartridges whose first instruction stores a byte to one of the registers
\* IF, KEY1, VBK, WBK; they run on both machines.
RegProgram(reg, v) == Layout(<<Ldh(reg, v)>>, 256)

MaskedRegisters == {REG_IF, REG_KEY1, REG_VBK, REG_WBK}

RegPrograms ==
    {RegProgram(reg, v) :
        reg \in MaskedRegisters, v \in {0, 1, 6, 8, 31, 170, 255}}

InitMem ==
    /\ \/ emu = InitialState("Dmg", 0) /\ prog \in MemPrograms \cup RegPrograms
       \/ emu = InitialState("Cgb", 128) /\ prog \in RegPrograms
    /\ sched = SchedInit
    /\ host = HostInit
    /\ obs = ObsInit

MemTick == TickWith({Nop}, MaxFrames * TICKS_PER_FRAME)

NextMem ==
    \/ Boot
    \/ RunFrame
    \/ ShortScanline
    \/ EnterDraw
    \/ EnterHblankLoop
    \/ NextScanline
    \/ MemTick

SpecMem == InitMem /\ [][NextMem]_vars

\* can_access_vram negated: Draw mode with the LCD enabled
VramBlocked(e) == e.mode = "Draw" /\ IsBitSet(IoRaw(e, REG_LCDC), 7)

InVram(addr) == addr >= ROM_END /\ addr < VRAM_END

InEchoRam(addr) == addr >= SECOND_WORK_RAM_BANK_END /\ addr < ECHO_RAM_END

\* the step is a run_tick whose CPU slot executed a store instruction
MemStoreStep ==
    /\ obs'.ticks = obs.ticks + 1
    /\ obs'.slots = obs.slots + 1
    /\ obs'.hist[Len(obs'.hist)].did = "instr"
    /\ obs'.hist[Len(obs'.hist)].op = "ld_imm16mem_a"

\* the instruction the step executed
StoredInstr == prog[obs'.hist[Len(obs'.hist)].pc]

\* what C17 says of one step
VramAccessStep ==
    /\ VramBlocked(emu')
        => \A a \in {a \in MemAddresses : InVram(a)} : ReadAddress(emu', a) = 255
    /\ (MemStoreStep /\ VramBlocked(emu) /\ InVram(StoredInstr.addr))
        => emu'.vram = emu.vram
    /\ (MemStoreStep /\ ~(VramBlocked(emu) /\ InVram(StoredInstr.addr))
           /\ ~InEchoRam(StoredInstr.addr))
        => /\ ~emu'.panicked
           /\ ~VramBlocked(emu')
                => ReadAddress(emu', StoredInstr.addr) = StoredInstr.a

\* C17: in Draw mode with the LCD enabled a read of VRAM returns 0xFF and a
\* store to VRAM leaves VRAM as it was; a store made in another mode, or to a
\* RAM address that is not a mirror (VRAM, external RAM, work RAM, OAM, high
\* RAM), is read back.
C17_VramBlockedInDraw == [][VramAccessStep]_vars

\* What the code does instead: a store to VRAM, external RAM, work RAM, OAM
\* or high RAM is read back in every mode (and a store to echo RAM aborts).
C17_StoreReadBack ==
    [][MemStoreStep
         => IF InEchoRam(StoredInstr.addr)
            THEN emu'.panicked
            ELSE /\ ~emu'.panicked
                 /\ ReadAddress(emu', StoredInstr.addr) = StoredInstr.a]_vars

\* the mask the claim gives each masked register
MaskOf(reg) ==
    CASE reg = REG_IF -> 31
      [] reg = REG_WBK -> 7
      [] reg = REG_VBK -> 1
      [] reg = REG_KEY1 -> 1

\* the tick just made stored to a masked register
MaskedRegisterWritten ==
    /\ obs.at = "tick"
    /\ obs.store.some
    /\ obs.store.age = 0
    /\ obs.store.addr \in MaskedRegisters
    /\ ~emu.panicked

\* C18: the read that follows a store of v to IF, WBK, VBK or KEY1 returns
\* (default & ~mask) | (v & mask), default being the register's initial byte
\* on the machine.
C18_MaskedRegisters ==
    MaskedRegisterWritten
        => LET reg == obs.store.addr
               default_bits == IoRegistersInit(emu.machine)[reg]
           IN  ReadAddress(emu, reg)
                 = BitOr(BitAndNot(default_bits, MaskOf(reg)),
                         BitAnd(obs.store.a, MaskOf(reg)))

\* What the code does instead: IF and VBK read as the claim has it, WBK
\* reads 0xF8 | max(v & 7, 1), and KEY1 reads v & 1.
C18_MaskedRegistersRead ==
    MaskedRegisterWritten
        => LET reg == obs.store.addr
               v == obs.store.a
           IN  ReadAddress(emu, reg)
                 = CASE reg = REG_IF -> 224 + (v % 32)
                     [] reg = REG_VBK -> 254 + (v % 2)
                     [] reg = REG_WBK -> 248 + (IF v % 8 = 0 THEN 1 ELSE v % 8)
                     [] reg = REG_KEY1 -> v % 2

\* ================================================== cartridge controllers
\* The emulator with an MBC1 or an MBC3 cartridge, driven through
\* write_address and read_address: each step stores a byte in the ROM
\* window, reads a byte of the cartridge, or lets the host clock move on.

\* stores applied to the controller in one behaviour
MaxMbcWrites == 4

\* advances of the host clock in one behaviour
MaxClockSteps == 2

MbcWriteAddresses == {0, 8192, 16383, 16384, 24576, 32767}

MbcWriteValues == {0, 1, 2, 3, 8, 10, 32, 255}

MbcReadAddresses == {0, 16383, 16384, 32767, 40960}

\* the host clock at start-up, in seconds since the epoch, and its steps
SystemTimes == {59, 22118399, 1793836799}

ClockSteps == {1, 61}

NoRead == [some |-> FALSE, addr |-> 0, value |-> 0]

MbcObsInit ==
    [writes |-> 0, clock_steps |-> 0,
     rom_bank_lo |-> [some |-> FALSE, v |-> 0],
     rom_hi |-> 0, advanced |-> FALSE,
     latch |-> [some |-> FALSE, v |-> 0],
     snapshot |-> [some |-> FALSE, secs |-> 0],
     read |-> NoRead]

\* what the stores so far amount to, told from the addresses and values alone
MbcObsWrite(o, addr, value, now) ==
    LET o1 == [o EXCEPT !.writes = @ + 1, !.read = NoRead]
    IN  IF addr < 8192 THEN o1
        ELSE IF addr < 16384
            THEN [o1 EXCEPT !.rom_bank_lo = [some |-> TRUE, v |-> value]]
        ELSE IF addr < 24576 THEN [o1 EXCEPT !.rom_hi = value % 4]
        ELSE [o1 EXCEPT
                !.advanced = (value % 2 = 1),
                !.snapshot = IF value = 1 /\ o.latch = [some |-> TRUE, v |-> 0]
                             THEN [some |-> TRUE, secs |-> now]
                             ELSE @,
                !.latch = [some |-> TRUE, v |-> value]]

\* a cartridge of kind `mbc` with `banks` ROM banks and four RAM banks
WithController(mbc, banks, now) ==
    [InitialState("Dmg", 0) EXCEPT
        !.mbc = mbc,
        !.rom_size = banks * ROM_BANK_SIZE,
        !.ram_size = 4 * SINGLE_EXTERNAL_RAM_BANK_SIZE,
        !.system_time = now]

InitMbc ==
    /\ \/ \E banks \in {32, 128} : emu = WithController(Mbc1New, banks, 59)
       \/ \E now \in SystemTimes : emu = WithController(Mbc3New, 128, now)
    /\ sched = SchedInit
    /\ host = HostInit
    /\ prog = NoProgram
    /\ obs = MbcObsInit

\* write_address on the ROM window
MbcWrite ==
    \E addr \in MbcWriteAddresses, value \in MbcWriteValues :
        /\ ~emu.panicked
        /\ obs.writes < MaxMbcWrites
        /\ emu' = WriteAddress(emu, addr, value)
        /\ obs' = MbcObsWrite(obs, addr, value, emu.system_time)
        /\ UNCHANGED <<sched, host, prog>>

\* read_address on the ROM window and on the external RAM window
MbcRead ==
    \E addr \in MbcReadAddresses :
        /\ ~emu.panicked
        /\ emu' = IF ReadPanics(emu, addr) THEN Panic(emu) ELSE emu
        /\ obs' = [obs EXCEPT !.read =
                    IF ReadPanics(emu, addr) THEN NoRead
                    ELSE [some |-> TRUE, addr |-> addr,
                          value |-> ReadAddress(emu, addr)]]
        /\ UNCHANGED <<sched, host, prog>>

\* the host's wall clock, which SystemTime::now() reads
SystemTimeAdvance ==
    \E d \in ClockSteps :
        /\ ~emu.panicked
        /\ obs.clock_steps < MaxClockSteps
        /\ emu' = [emu EXCEPT !.system_time = @ + d]
        /\ obs' = [obs EXCEPT !.clock_steps = @ + 1]
        /\ UNCHANGED <<sched, host, prog>>

NextMbc ==
    \/ MbcWrite
    \/ MbcRead
    \/ SystemTimeAdvance

SpecMbc == InitMbc /\ [][NextMbc]_vars

\* the 5-bit ROM bank number after the stores so far: 1 at power-on
RomBankLo ==
    IF ~obs.rom_bank_lo.some THEN 1
    ELSE IF obs.rom_bank_lo.v % 32 = 0 THEN 1
    ELSE obs.rom_bank_lo.v % 32

\* the bank that the claim assigns to a ROM address
Mbc1BankOf(addr) ==
    IF addr >= FIRST_ROM_BANK_END
    THEN BitOr(obs.rom_hi * 32, RomBankLo)
    ELSE IF obs.advanced THEN obs.rom_hi * 32 ELSE 0

\* C19: after any sequence of MBC1 register writes, an address in
\* 0x4000-0x7FFF maps into bank (RAM_BANK_OR_ROM_HI << 5) | ROM_BANK_LO, with
\* ROM_BANK_LO the last value stored to 0x2000-0x3FFF masked to five bits and
\* 0 read as 1, and an address in 0x0000-0x3FFF maps into bank 0 in simple
\* mode and bank RAM_BANK_OR_ROM_HI << 5 in advanced mode; a completed read
\* returns the byte at that place of the ROM.
C19_Mbc1RomBanks ==
    (emu.mbc.kind = "Mbc1" /\ ~emu.panicked)
        => /\ \A addr \in MbcReadAddresses :
                addr < ROM_END =>
                    MapReadRomAddress(emu.mbc, addr)
                        = Mbc1BankOf(addr) * ROM_BANK_SIZE
                            + (addr % ROM_BANK_SIZE)
           /\ (obs.read.some /\ obs.read.addr < ROM_END)
                => obs.read.value
                    = RomByte(Mbc1BankOf(obs.read.addr) * ROM_BANK_SIZE
                                + (obs.read.addr % ROM_BANK_SIZE))

\* a 512 KiB ROM, 0x00 stored to ROM_BANK_LO, then 0x4000 read from bank 1
C19_Witness ==
    /\ emu.mbc.kind = "Mbc1"
    /\ emu.rom_size = 32 * ROM_BANK_SIZE
    /\ obs.rom_bank_lo = [some |-> TRUE, v |-> 0]
    /\ obs.read = [some |-> TRUE, addr |-> 16384, value |-> RomByte(16384)]
    /\ MapReadRomAddress(emu.mbc, 16384) = ROM_BANK_SIZE

RtcRegisters ==
    {"RTC_REGISTER_SECONDS", "RTC_REGISTER_MINUTES", "RTC_REGISTER_HOURS",
     "RTC_REGISTER_DAY_LOW", "RTC_REGISTER_DAY_HIGH"}

\* the external RAM window shows an RTC register
RtcMapped == emu.mbc.is_ram_rtc_enabled /\ emu.mbc.ram_rtc_mapping.rtc

\* C20: for MBC3 the RTC snapshot is the host time of the last store of 0x01
\* to the latch register that directly followed a store of 0x00 to it, no
\* other store to the latch register changes it, and the RTC registers read
\* the fields of that snapshot (0 before the first one), whatever the live
\* clock shows.
C20_RtcLatch ==
    (emu.mbc.kind = "Mbc3" /\ ~emu.panicked)
        => /\ emu.mbc.latched_clock_time = obs.snapshot
           /\ \A reg \in RtcRegisters :
                Mbc3ReadRegister(emu.mbc, reg)
                    = IF obs.snapshot.some
                      THEN RtcField(reg, obs.snapshot.secs)
                      ELSE 0
           /\ (obs.read.some /\ obs.read.addr >= EXTERNAL_RAM_START
                    /\ RtcMapped)
                => obs.read.value
                    = IF obs.snapshot.some
                      THEN RtcField(RtcRegisterHandle(emu.mbc.ram_rtc_mapping.v),
                                    obs.snapshot.secs)
                      ELSE 0

\* a latched time read back as seconds after the host clock has moved on
C20_Witness ==
    /\ emu.mbc.kind = "Mbc3"
    /\ obs.snapshot.some
    /\ obs.latch = [some |-> TRUE, v |-> 1]
    /\ RtcMapped
    /\ emu.mbc.ram_rtc_mapping.v = 8
    /\ obs.read.some
    /\ obs.read.addr = EXTERNAL_RAM_START
    /\ obs.read.value = obs.snapshot.secs % 60
    /\ obs.read.value # emu.system_time % 60

\* ============================================================ APU channels
\* The methods of the Apu and of one of its channels, called in any order:
\* register writes (with their triggers), advances of DIV-APU, and advances
\* of the period timers.  obs holds the channel looked at, the channel as
\* it was before the last call, and the call.

\* register writes, DIV-APU advances and period advances in one behaviour
MaxApuWrites == 4
MaxDivApu == 4
MaxApuTicks == 1

ApuChannels == {1, 2, 3, 4}

\* NRx0 .. NRx4 of a channel; the noise channel has no NR40
ApuRegisters(ch) == IF ch = 4 THEN 1..4 ELSE 0..4

\* the bytes stored: sweep (and the DAC bit of NR30), length, envelope and
\* DAC, period, and length enable with or without the trigger bit
ApuWriteValues(reg) ==
    CASE reg = 0 -> {0, 17, 128}
      [] reg = 1 -> {62, 255}
      [] reg = 2 -> {0, 8, 240}
      [] reg = 3 -> {255}
      [] OTHER -> {64, 132, 199}

Channel(a, ch) ==
    CASE ch = 1 -> a.channel_1
      [] ch = 2 -> a.channel_2
      [] ch = 3 -> a.channel_3
      [] OTHER -> a.channel_4

\* the write_nrxy method of channel ch
ChannelWrite(a, ch, reg, value) ==
    CASE ch = 1 -> [a EXCEPT !.channel_1 = PulseWrite(@, reg, value)]
      [] ch = 2 -> [a EXCEPT !.channel_2 =
                        IF reg = 0 THEN @ ELSE PulseWrite(@, reg, value)]
      [] ch = 3 -> [a EXCEPT !.channel_3 = WaveWrite(@, reg, value)]
      [] OTHER -> [a EXCEPT !.channel_4 = NoiseWrite(@, reg, value)]

ApuObsInit(ch) ==
    [channel |-> ch, writes |-> 0, divs |-> 0, ticks |-> 0,
     op |-> "new", reg |-> 0, value |-> 0, prev |-> Channel(ApuNew, ch)]

ApuObs(o, e, op, reg, value) ==
    [o EXCEPT !.op = op, !.reg = reg, !.value = value,
              !.prev = Channel(e.apu, o.channel),
              !.writes = IF op = "write" THEN @ + 1 ELSE @,
              !.divs = IF op = "div" THEN @ + 1 ELSE @,
              !.ticks = IF op = "tick" THEN @ + 1 ELSE @]

InitApu ==
    /\ \E checks \in BOOLEAN :
        emu = [InitialState("Dmg", 0) EXCEPT !.overflow_checks = checks]
    /\ sched = SchedInit
    /\ host = HostInit
    /\ prog = NoProgram
    /\ \E ch \in ApuChannels : obs = ApuObsInit(ch)

\* a store to one of the channel's registers
ApuWrite ==
    \E reg \in ApuRegisters(obs.channel) : \E value \in ApuWriteValues(reg) :
        /\ ~emu.panicked
        /\ obs.writes < MaxApuWrites
        /\ emu' = [emu EXCEPT !.apu = ChannelWrite(@, obs.channel, reg, value)]
        /\ obs' = ApuObs(obs, emu, "write", reg, value)
        /\ UNCHANGED <<sched, host, prog>>

\* advance_div_apu, which increment_timers calls every 8192 ticks
DivApuAdvance ==
    /\ ~emu.panicked
    /\ obs.divs < MaxDivApu
    /\ emu' = [emu EXCEPT !.apu = AdvanceDivApu(@)]
    /\ obs' = ApuObs(obs, emu, "div", 0, 0)
    /\ UNCHANGED <<sched, host, prog>>

\* advance_period_timers on a tick in which every channel is advanced
ApuPeriodAdvance ==
    /\ ~emu.panicked
    /\ obs.ticks < MaxApuTicks
    /\ emu' = AdvanceApuPeriodTimers([emu EXCEPT !.tick = 0])
    /\ obs' = ApuObs(obs, emu, "tick", 0, 0)
    /\ UNCHANGED <<sched, host, prog>>

NextApu ==
    \/ ApuWrite
    \/ DivApuAdvance
    \/ ApuPeriodAdvance

SpecApu == InitApu /\ [][NextApu]_vars

\* the channel looked at, now
ApuChannel == Channel(emu.apu, obs.channel)

\* the last call was an advance_div_apu that advanced the length timers
LengthAdvanced == obs.op = "div" /\ emu.apu.div_apu % 2 = 0

\* the sweep unit of channel 1 was advanced, and may have disabled it
SweepAdvanced == obs.channel = 1 /\ obs.op = "div" /\ emu.apu.div_apu % 4 = 0

\* a store to NRx4 with the trigger bit
Triggered == obs.op = "write" /\ obs.reg = 4 /\ obs.value >= 128

\* C21: for every channel, after any sequence of register writes, triggers
\* and DIV-APU advances, the channel is enabled only if its DAC is; a trigger
\* while the DAC is disabled leaves the channel disabled; and a length-timer
\* advance disables an enabled channel exactly when the length-enable bit is
\* set and the length counter reaches zero.
C21_ChannelEnable ==
    /\ ApuChannel.is_enabled => ApuChannel.is_dac_enabled
    /\ (Triggered /\ ~ApuChannel.is_dac_enabled) => ~ApuChannel.is_enabled
    /\ (LengthAdvanced /\ ~SweepAdvanced /\ obs.prev.is_enabled)
        => (~ApuChannel.is_enabled
                <=> /\ obs.prev.is_length_timer_enabled
                    /\ obs.prev.length_timer = 1
                    /\ ApuChannel.length_timer = 0)
    /\ (LengthAdvanced /\ ~obs.prev.is_length_timer_enabled)
        => ApuChannel.length_timer = obs.prev.length_timer

\* an enabled channel whose length counter has just run out
C21_Witness ==
    /\ LengthAdvanced
    /\ ~SweepAdvanced
    /\ obs.prev.is_enabled
    /\ obs.prev.is_dac_enabled
    /\ ~ApuChannel.is_enabled
    /\ ApuChannel.is_dac_enabled
    /\ ApuChannel.length_timer = 0

\* ================================================================ the OAM scan

NUM_OBJECTS == 40
MAX_OBJECTS_PER_SCANLINE == 10

\* object_height
ObjectHeight(are_objects_double_size) ==
    IF are_objects_double_size THEN 16 ELSE 8

\* the Object read from OAM at index i
ObjectAt(e, i) ==
    [y |-> Get(e.oam, 4 * i), x |-> Get(e.oam, (4 * i) + 1),
     tile_index |-> Get(e.oam, (4 * i) + 2),
     attributes |-> Get(e.oam, (4 * i) + 3)]

\* (object_start_y..object_end_y).contains(&scanline_y), the end wrapping
OverlapsScanline(e, i, scanline) ==
    LET object_start_y == Get(e.oam, 4 * i)
        object_end_y ==
            (object_start_y + ObjectHeight(IsBitSet(IoRaw(e, REG_LCDC), 2))) % 256
        scanline_y == scanline + 16
    IN  object_start_y <= scanline_y /\ scanline_y < object_end_y

\* the loop of oam_scan from object i on
RECURSIVE CollectObjects(_, _, _, _)
CollectObjects(e, scanline, i, objects) ==
    IF i = NUM_OBJECTS \/ Len(objects) = MAX_OBJECTS_PER_SCANLINE THEN objects
    ELSE CollectObjects(e, scanline, i + 1,
            IF OverlapsScanline(e, i, scanline)
            THEN Append(objects, ObjectAt(e, i)) ELSE objects)

\* sort_by_key(|obj| obj.x), a stable sort: obj goes behind the objects
\* whose x is not larger
RECURSIVE InsertByX(_, _)
InsertByX(sorted, obj) ==
    IF sorted = <<>> THEN <<obj>>
    ELSE IF sorted[Len(sorted)].x <= obj.x THEN Append(sorted, obj)
    ELSE Append(InsertByX(SubSeq(sorted, 1, Len(sorted) - 1), obj),
                sorted[Len(sorted)])

RECURSIVE SortByX(_)
SortByX(objects) ==
    IF objects = <<>> THEN <<>>
    ELSE InsertByX(SortByX(SubSeq(objects, 1, Len(objects) - 1)),
                   objects[Len(objects)])

\* oam_scan sorting whenever the machine is the DMG
OamScanBugSortsOnDmg(e, scanline) ==
    LET objects == CollectObjects(e, scanline, 0, <<>>)
    IN  IF IoRaw(e, REG_OPRI) = 1 \/ e.machine = "Dmg" THEN SortByX(objects)
        ELSE objects

\* oam_scan
OamScan(e, scanline) ==
    LET objects == CollectObjects(e, scanline, 0, <<>>)
    IN  IF IoRaw(e, REG_OPRI) = 1 THEN SortByX(objects) ELSE objects

\* The OAM scan of one scanline of a frame: OAM holds one of OamLayouts, a
\* list of (y, x) for the objects from index 0 on, object i carrying tile
\* index i + 1; the other objects are at y = 0, off the screen.
ObjectHeights == {8, 16}
ScanScanlines == {0, 1, 7, 8, 15, 143}

OamLayouts ==
    { [i \in 1..12 |-> <<16, 13 - i>>],
      [i \in 1..11 |-> <<IF i = 3 THEN 40 ELSE 16, 20>>],
      <<<<16, 5>>, <<16, 3>>, <<16, 5>>, <<16, 3>>>>,
      <<<<16, 8>>, <<17, 4>>, <<9, 6>>, <<1, 2>>, <<24, 1>>, <<151, 0>>>>,
      <<<<250, 3>>, <<16, 2>>, <<8, 1>>, <<255, 0>>>>,
      [i \in 1..40 |-> <<IF i % 4 = 0 THEN 23 ELSE 200, 41 - i>>] }

OamOf(layout) ==
    LET byte(k) == CASE k % 4 = 0 -> layout[(k \div 4) + 1][1]
                     [] k % 4 = 1 -> layout[(k \div 4) + 1][2]
                     [] k % 4 = 2 -> (k \div 4) + 1
                     [] OTHER -> 0
    IN  [k \in {j \in 0..((4 * Len(layout)) - 1) : byte(j) # 0} |-> byte(k)]

OamMachines == {<<"Dmg", 0>>, <<"Cgb", 0>>, <<"Cgb", 128>>}

InitOam ==
    /\ \E mc \in OamMachines, layout \in OamLayouts, h \in ObjectHeights :
            emu = [WriteRaw(InitialState(mc[1], mc[2]), REG_LCDC,
                            IF h = 16 THEN 149 ELSE 145)
                        EXCEPT !.oam = OamOf(layout)]
    /\ sched = SchedInit
    /\ host = HostInit
    /\ prog = <<>>
    /\ obs = [at |-> "init", scanline |-> 0, objects |-> <<>>]

OamBoot ==
    /\ obs.at = "init"
    /\ emu' = EmulateBootSequence(emu)
    /\ obs' = [obs EXCEPT !.at = "booted"]
    /\ UNCHANGED <<sched, host, prog>>

OamScanStep ==
    /\ obs.at = "booted"
    /\ \E scanline \in ScanScanlines :
            obs' = [at |-> "scanned", scanline |-> scanline,
                    objects |-> OamScan(emu, scanline)]
    /\ UNCHANGED <<emu, sched, host, prog>>

NextOam == OamBoot \/ OamScanStep

SpecOam == InitOam /\ [][NextOam]_vars

\* the indices of the objects the scan of obs.scanline is to select: those
\* with screen_y + 16 in [y, y + H), and of them the first ten
SelectedIndices ==
    LET h == IF IsBitSet(IoRaw(emu, REG_LCDC), 2) THEN 16 ELSE 8
        hit == {i \in 0..(NUM_OBJECTS - 1) :
                    /\ Get(emu.oam, 4 * i) <= obs.scanline + 16
                    /\ obs.scanline + 16 < Get(emu.oam, 4 * i) + h}
    IN  {i \in hit : Cardinality({j \in hit : j < i}) < 10}

\* the tile index of object i is i + 1
IndexOf(obj) == obj.tile_index - 1

InOamOrder(objects) ==
    \A a, b \in 1..Len(objects) :
        a < b => IndexOf(objects[a]) < IndexOf(objects[b])

InStableXOrder(objects) ==
    \A a, b \in 1..Len(objects) :
        a < b => \/ objects[a].x < objects[b].x
                 \/ /\ objects[a].x = objects[b].x
                    /\ IndexOf(objects[a]) < IndexOf(objects[b])

\* the scan's result is the selected objects, each once
ScanSelects ==
    /\ Len(obs.objects) = Cardinality(SelectedIndices)
    /\ {IndexOf(obs.objects[a]) : a \in 1..Len(obs.objects)} = SelectedIndices
    /\ \A a \in 1..Len(obs.objects) :
            obs.objects[a] = ObjectAt(emu, IndexOf(obs.objects[a]))

\* the DMG, and the CGB running a cartridge without CGB support
DmgMode == emu.machine = "Dmg" \/ ~IsBitSet(emu.cgb_byte, 7)

\* C24: the OAM scan of a scanline selects object i iff screen_y + 16 lies in
\* [obj.y, obj.y + H), H = 8 or 16 per LCDC bit 2, keeps the first 10 of them
\* in OAM order and, in DMG mode, orders them by ascending x, equal x keeping
\* OAM order; in CGB mode OAM order is kept
C24_OamScan ==
    obs.at = "scanned" =>
        /\ ScanSelects
        /\ IF DmgMode THEN InStableXOrder(obs.objects)
           ELSE InOamOrder(obs.objects)

\* what the scan does: the order by x is that of OPRI = 1, which the boot
\* sequence sets on the CGB for a cartridge without CGB support and which the
\* DMG, whose OPRI reads 0xFF, never has
C24_OamScanByOpri ==
    obs.at = "scanned" =>
        /\ ScanSelects
        /\ IoRaw(emu, REG_OPRI) = 1 <=> (emu.machine = "Cgb" /\ ~IsBitSet(emu.cgb_byte, 7))
        /\ IF IoRaw(emu, REG_OPRI) = 1 THEN InStableXOrder(obs.objects)
           ELSE InOamOrder(obs.objects)

\* on the DMG two objects on scanline 0 come out in OAM order, the larger x
\* first
C24_UnsortedOnDmg ==
    /\ obs.at = "scanned"
    /\ emu.machine = "Dmg"
    /\ obs.scanline = 0
    /\ Len(obs.objects) = 10
    /\ obs.objects[1].x = 12
    /\ obs.objects[2].x = 11
    /\ IndexOf(obs.objects[1]) = 0

\* =================================================== the APU in the tick loop
\* The emulator running cartridges that set up pulse channel 1 through
\* NR11..NR14.  NR10 has no write handler in the I/O table, so the sweep
\* setting (pace 1, step 7, increasing) is put in place by write_nrx0 before
\* the first tick.

\* envelope 15 down with pace 1, length 64 with length enable, period 0x400,
\* trigger; then, after `delay` more instructions, the divider is reset
CadenceProgram(delay) ==
    Layout(<<Ldh(REG_NR11 + 1, 241), Ldh(REG_NR11, 0), Ldh(REG_NR11 + 2, 0),
             Ldh(REG_NR11 + 3, 196), Pad(delay), Ldh(REG_DIV, 0)>>, 256)

\* period 0x7C0, duty 0, volume 15, length disabled, trigger
DutyProgram(delay) ==
    Layout(<<Pad(delay), Ldh(REG_NR11 + 2, 192), Ldh(REG_NR11, 0),
             Ldh(REG_NR11 + 1, 240), Ldh(REG_NR11 + 3, 135)>>, 256)

InitSound ==
    /\ \/ /\ emu = [InitialState("Dmg", 0) EXCEPT
                        !.apu.channel_1 = PulseWrite(@, 0, 23)]
          /\ prog \in {CadenceProgram(delay) : delay \in {0, 3}}
       \/ /\ emu = InitialState("Dmg", 0)
          /\ prog \in {DutyProgram(delay) : delay \in {0, 1}}
    /\ sched = SchedInit
    /\ host = HostInit
    /\ obs = ObsInit

SoundTick == TickWith({Nop}, MaxFrames * TICKS_PER_FRAME)

NextSound ==
    \/ Boot
    \/ RunFrame
    \/ RunScanline
    \/ EnterDraw
    \/ EnterHblankLoop
    \/ NextScanline
    \/ EndFrame
    \/ SoundTick

SpecSound == InitSound /\ [][NextSound]_vars

\* the program has reset the divider; obs.store.age ticks have completed since
DividerReset == obs.store.some /\ obs.store.addr = REG_DIV

\* the program has triggered channel 1 and no later store has happened
Channel1Triggered == obs.store.some /\ obs.store.addr = REG_NR11 + 3

\* C22: from a reset divider at normal speed DIV-APU increments once per 8192
\* ticks; the length timer advances once per 2 DIV-APU increments, which is
\* once per 16384 ticks, the sweep once per 4 and the envelope once per 8
C22_DivApuCadence ==
    DividerReset =>
        /\ emu.apu.div_apu = obs.store.age \div 8192
        /\ emu.apu.channel_1.length_timer
               = PULSE_MAX_LENGTH_TIMER - (emu.apu.div_apu \div 2)
        /\ emu.apu.channel_1.length_timer
               = PULSE_MAX_LENGTH_TIMER - (obs.store.age \div 16384)
        /\ emu.apu.channel_1.period_register
               = 1024 + 8 * (emu.apu.div_apu \div 4)
        /\ emu.apu.channel_1.volume = 15 - (emu.apu.div_apu \div 8)

\* C22 with the tick count of the sentence: the length timer advancing once
\* per 8192 ticks
C22_LengthEvery8192Ticks ==
    DividerReset =>
        emu.apu.channel_1.length_timer
            = PULSE_MAX_LENGTH_TIMER - (obs.store.age \div 8192)

C22_Witness ==
    /\ DividerReset
    /\ obs.store.age = 65536
    /\ emu.apu.div_apu = 8
    /\ emu.apu.channel_1.length_timer = 60
    /\ emu.apu.channel_1.period_register = 1040
    /\ emu.apu.channel_1.volume = 14

\* the emulator as the triggering store found it
TriggerState == obs.store.dec[1]

\* the pulse channels advance on the ticks whose number is a multiple of 4:
\* the number of advances of channel 1 since the triggering store
PulseAdvancesSinceTrigger == ((TriggerState.tick % 4) + obs.store.age) \div 4

\* the period timer, loaded with 2048 - 0x7C0 = 64 by the trigger, expires on
\* the 65th advance and on every 64th after it
ReloadsSinceTrigger ==
    IF PulseAdvancesSinceTrigger = 0 THEN 0
    ELSE (PulseAdvancesSinceTrigger - 1) \div 64

DutyRun ==
    /\ Channel1Triggered
    /\ obs.store.a = 135
    /\ emu.apu.channel_1.period_register = 1984

Accumulators == 0..255

InitDaa ==
    /\ \E a \in Accumulators, z \in BOOLEAN, n \in BOOLEAN, h \in BOOLEAN,
          c \in BOOLEAN :
            emu = [InitialState("Dmg", 0) EXCEPT
                       !.regs = [a |-> a, zero_flag |-> z, carry_flag |-> c,
                                 n_flag |-> n, h_flag |-> h]]
    /\ sched = SchedInit
    /\ host = HostInit
    /\ prog = <<>>
    /\ obs = [executed |-> FALSE, before |-> emu.regs]

DaaStep ==
    /\ ~obs.executed
    /\ emu' = ExecuteInstruction(emu, Daa)
    /\ obs' = [executed |-> TRUE, before |-> emu.regs]
    /\ UNCHANGED <<sched, host, prog>>

NextDaa == DaaStep

SpecDaa == InitDaa /\ [][NextDaa]_vars

\* the BCD adjustment of the accumulator as the manual gives it
BcdAdjusted(regs) ==
    IF regs.n_flag
    THEN (regs.a + 256 - ((IF regs.h_flag THEN 6 ELSE 0)
                          + (IF regs.carry_flag THEN 96 ELSE 0))) % 256
    ELSE (regs.a + (IF regs.h_flag \/ regs.a % 16 > 9 THEN 6 ELSE 0)
                 + (IF regs.carry_flag \/ regs.a > 153 THEN 96 ELSE 0)) % 256

BcdCarry(regs) ==
    IF regs.n_flag THEN regs.carry_flag
    ELSE regs.carry_flag \/ regs.a > 153

\* C25: daa replaces A by its BCD-adjusted value for every A and flag
\* combination, sets C as the adjustment gives it, sets Z iff the new A is
\* zero, clears H and leaves N alone
C25_DaaAdjustsAccumulator ==
    obs.executed =>
        /\ emu.regs.a = BcdAdjusted(obs.before)
        /\ emu.regs.carry_flag = BcdCarry(obs.before)
        /\ emu.regs.zero_flag = (emu.regs.a = 0)
        /\ ~emu.regs.h_flag
        /\ emu.regs.n_flag = obs.before.n_flag

\* what the instruction does: the flags of the adjusted value, the
\* accumulator as it was
C25_DaaFlagsOnly ==
    obs.executed =>
        /\ emu.regs.a = obs.before.a
        /\ emu.regs.carry_flag = BcdCarry(obs.before)
        /\ emu.regs.zero_flag = (BcdAdjusted(obs.before) = 0)
        /\ ~emu.regs.h_flag
        /\ emu.regs.n_flag = obs.before.n_flag
        /\ emu.pc = 257
        /\ emu.ticks_to_next_instruction = 4

\* 0x0A with the flags clear, which adjusts to 0x10, is left at 0x0A
C25_Unadjusted ==
    /\ obs.executed
    /\ obs.before = [a |-> 10, zero_flag |-> FALSE, carry_flag |-> FALSE,
                     n_flag |-> FALSE, h_flag |-> FALSE]
    /\ BcdAdjusted(obs.before) = 16
    /\ emu.regs.a = 10

\* ========================================================= the host's commands
\* The host thread sends commands while the emulator runs the OAM scan of the
\* first scanline; the channel keeps them in the order sent.

\* Number of commands the host sends, and the number of ticks during which
\* it sends them.
MaxCommands == 3
MaxSendTicks == 2

InputCommands == {VolumeUp, VolumeDown, ToggleMute, SetTurboMode(TRUE), QuickSave(0)}

InitInput ==
    /\ emu = InitialState("Dmg", 0)
    /\ sched = SchedInit
    /\ host = HostInit
    /\ prog = <<>>
    /\ obs = [sent |-> <<>>] @@ ObsInit

\* Sender::send from the host thread, after obs.ticks ticks have completed
InputSend ==
    /\ sched.k > 0
    /\ ~emu.panicked
    /\ Len(obs.sent) < MaxCommands
    /\ obs.ticks <= MaxSendTicks
    /\ \E command \in InputCommands :
            /\ host' = [host EXCEPT !.queue = Append(@, command)]
            /\ obs' = [obs EXCEPT !.at = "host",
                                  !.sent = Append(@, [command |-> command,
                                                      at |-> obs.ticks])]
    /\ UNCHANGED <<emu, sched, prog>>

FirstScanline == RunScanlineBelow(1)

InputTick == TickWith({Nop}, MaxFrames * TICKS_PER_FRAME)

NextInput ==
    \/ Boot
    \/ RunFrame
    \/ FirstScanline
    \/ InputTick
    \/ InputSend

SpecInput == InitInput /\ [][NextInput]_vars

\* What the commands act on: the turbo flag, the volume knob, the mute
\* switch and quick-save slot 0, of which the volume, the mute switch, the
\* tick counter and the divider are looked at.
InputState(e, saves) ==
    [turbo |-> e.in_turbo_mode,
     volume |-> e.apu.system_volume_index,
     muted |-> e.apu.is_muted,
     saved |-> IF saves[0] = NoSnapshot THEN <<>>
               ELSE <<[volume |-> saves[0][1].apu.system_volume_index,
                       muted |-> saves[0][1].apu.is_muted,
                       tick |-> saves[0][1].tick,
                       divider |-> saves[0][1].full_divider_register]>>]

\* the effect of one command, handled before the tick that follows the
\* `at` completed ones has advanced anything
CommandEffect(s, sent) ==
    LET kind == sent.command.kind
    IN  CASE kind = "VolumeUp" ->
                [s EXCEPT !.volume = IF @ = 7 THEN 7 ELSE @ + 1]
          [] kind = "VolumeDown" ->
                [s EXCEPT !.volume = IF @ = 0 THEN 0 ELSE @ - 1]
          [] kind = "ToggleMute" -> [s EXCEPT !.muted = ~@]
          [] kind = "SetTurboMode" -> [s EXCEPT !.turbo = (sent.command.arg = 1)]
          [] kind = "QuickSave" ->
                [s EXCEPT !.saved = <<[volume |-> s.volume, muted |-> s.muted,
                                       tick |-> sent.at, divider |-> sent.at]>>]

\* the commands of a sequence, each once and in the order of the sequence
RECURSIVE Replay(_, _)
Replay(s, sents) ==
    IF sents = <<>> THEN s
    ELSE Replay(CommandEffect(s, Head(sents)), Tail(sents))

\* the commands sent and no longer in the channel
HandledCommands == SubSeq(obs.sent, 1, Len(obs.sent) - Len(host.queue))

\* the state is that of the handled commands replayed once each in the
\* order sent, and a tick leaves nothing in the queue
CommandsHandled ==
    /\ Len(host.queue) <= Len(obs.sent)
    /\ InputState(emu, host.saves)
          = Replay(InputState(InitialState("Dmg", 0), HostInit.saves),
                   HandledCommands)
    /\ obs.at = "tick" => host.queue = <<>>

\* C26: the commands the host sent are handled exactly once each and in the
\* order sent; every command in the queue when a tick starts is handled at
\* the top of that tick, before the timers, the CPU and the DMA engines
\* advance; a tick that finds the queue empty handles nothing and advances
\* like any other
C26_CommandsInOrder ==
    [][/\ CommandsHandled'
       /\ obs'.ticks = obs.ticks + 1 =>
            /\ emu'.tick = emu.tick + 1
            /\ emu'.full_divider_register = emu.full_divider_register + 1
            /\ host.queue = <<>> =>
                    InputState(emu', host'.saves) = InputState(emu, host.saves)
      ]_vars

\* a save sent after a mute and before a volume step, all three handled by
\* the second tick: the snapshot is muted, at the old volume, and taken
\* before that tick advanced the tick counter and the divider
C26_Witness ==
    /\ obs.at = "tick"
    /\ obs.ticks = 2
    /\ obs.sent = <<[command |-> ToggleMute, at |-> 1],
                    [command |-> QuickSave(0), at |-> 1],
                    [command |-> VolumeUp, at |-> 1]>>
    /\ emu.apu.system_volume_index = 6
    /\ emu.apu.is_muted
    /\ host.saves[0] # NoSnapshot
    /\ host.saves[0][1].apu.system_volume_index = 5
    /\ host.saves[0][1].apu.is_muted
    /\ host.saves[0][1].tick = 1
    /\ emu.tick = 2

\* ======================================================= the window line counter
\* Cartridges that place the window at (WX, WY), display it, and during the
\* first frame take it away for 2 scanlines, move it past the right edge for
\* 2 more and put it back; the second frame runs with the window displayed.
\* A scanline takes 114 nops; LCDC = 0xB1 displays the window, 0x91 does not,
\* 0xB0 displays it in CGB mode only.
WindowProgram(wy, wx, lcdc) ==
    Layout(<<Ldh(REG_WY, wy), Ldh(REG_WX, wx), Ldh(REG_LCDC, lcdc),
             Pad(114 * 3), Ldh(REG_LCDC, 145),
             Pad(114 * 2), Ldh(REG_LCDC, lcdc),
             Pad(114 * 3), Ldh(REG_WX, 167),
             Pad(114 * 2), Ldh(REG_WX, wx)>>, 256)

WindowCartridges ==
    {[machine |-> "Dmg", cgb_byte |-> 0, prog |-> WindowProgram(p[1], p[2], p[3])] :
        p \in {<<0, 7, 177>>, <<2, 166, 177>>,
                <<1, 0, 177>>, <<2, 167, 177>>,
                <<1, 7, 176>>}}
        \cup {[machine |-> "Cgb", cgb_byte |-> 128,
               prog |-> WindowProgram(1, 7, 176)]}

InitWindow ==
    /\ \E c \in WindowCartridges :
            /\ emu = InitialState(c.machine, c.cgb_byte)
            /\ prog = c.prog
    /\ sched = SchedInit
    /\ host = HostInit
    /\ obs = ObsInit

WindowTick == TickWith({Nop}, MaxFrames * TICKS_PER_FRAME)

NextWindow ==
    \/ Boot
    \/ RunFrame
    \/ RunScanline
    \/ EnterDraw
    \/ EnterHblankLoop
    \/ NextScanline
    \/ EndFrame
    \/ WindowTick

SpecWindow == InitWindow /\ [][NextWindow]_vars

\* C29: the window-line counter is 0 on the first scanline after VBlank entry
\* on which a window pixel is rendered, one more on each later scanline of
\* the frame on which one is rendered, left alone by the scanlines that
\* render none, and reset at every VBlank entry
C29_WindowLineCounter ==
    /\ obs.window_lines = 0 =>
            /\ emu.window_line_counter.line = 0
            /\ emu.window_line_counter.last_updated_scanline = <<>>
    /\ obs.window_lines > 0 =>
            emu.window_line_counter.line = obs.window_lines - 1

\* scanline 10 of the first frame with the window at (0, 0): the window was
\* away on scanlines 3 and 4 and past the right edge on 8 and 9, so this is
\* its seventh scanline and the counter is at 6
C29_Witness ==
    /\ sched.frames = 0
    /\ emu.scanline = 10
    /\ emu.mode = "Draw"
    /\ IoRaw(emu, REG_WY) = 0
    /\ obs.window_lines = 7
    /\ emu.window_line_counter = [line |-> 6, last_updated_scanline |-> <<10>>]

\* ------------------------------------------- the noise channel's clock timer
\* The noise channel through the methods of the Apu: stores to NR43 (clock
\* shift, LFSR width, clock divider), a trigger through NR44, and
\* advance_period_timers on a tick that advances the noise channel.  emu
\* carries whether the build checks arithmetic overflow.

MaxNoiseWrites == 1
MaxNoiseTicks == 3

\* every NR43: shift 0..15, both LFSR widths, divider 0..7
Nr43Values == 0..255

InitNoise ==
    /\ \E checks \in BOOLEAN :
        emu = [InitialState("Dmg", 0) EXCEPT !.overflow_checks = checks]
    /\ sched = SchedInit
    /\ host = HostInit
    /\ prog = NoProgram
    /\ obs = ApuObsInit(4)

\* write_nr43
NoiseWriteNr43 ==
    \E value \in Nr43Values :
        /\ ~emu.panicked
        /\ obs.writes < MaxNoiseWrites
        /\ emu' = [emu EXCEPT !.apu = ChannelWrite(@, 4, 3, value)]
        /\ obs' = ApuObs(obs, emu, "write", 3, value)
        /\ UNCHANGED <<sched, host, prog>>

\* write_nr44 with the trigger bit
NoiseTriggerWrite ==
    /\ ~emu.panicked
    /\ emu' = [emu EXCEPT !.apu = ChannelWrite(@, 4, 4, 128)]
    /\ obs' = ApuObs(obs, emu, "trigger", 4, 128)
    /\ UNCHANGED <<sched, host, prog>>

\* advance_period_timers on a tick that is a multiple of 8
NoisePeriodAdvance ==
    /\ ~emu.panicked
    /\ obs.ticks < MaxNoiseTicks
    /\ emu' = AdvanceApuPeriodTimers([emu EXCEPT !.tick = 0])
    /\ obs' = ApuObs(obs, emu, "tick", 0, 0)
    /\ UNCHANGED <<sched, host, prog>>

NextNoise ==
    \/ NoiseWriteNr43
    \/ NoiseTriggerWrite
    \/ NoisePeriodAdvance

SpecNoise == InitNoise /\ [][NextNoise]_vars

\* (divider == 0 ? 1 : divider * 2) << shift, in the integers
ExactClockTimer(c) ==
    (IF c.clock_divider = 0 THEN 1 ELSE c.clock_divider * 2)
        * (2 ^ c.clock_shift)

\* the last call was an advance of the period timers
NoiseAdvanced == obs.op = "tick"

\* C30: for every clock divider 0..7 and clock shift 0..13 the reload value
\* of the noise clock timer is (divider == 0 ? 1 : divider * 2) << shift, not
\* truncated, and at least 1, and clocking the channel never makes the clock
\* timer underflow: the advance ends normally with the timer at the reload
\* value less one; with a shift of 14 or 15 an advance never clocks the LFSR.
C30_NoiseClockTimer ==
    /\ ~emu.panicked
    /\ emu.apu.channel_4.clock_shift <= 13 =>
            /\ InitialClockTimer(emu.apu.channel_4)
                    = ExactClockTimer(emu.apu.channel_4)
            /\ InitialClockTimer(emu.apu.channel_4) >= 1
    /\ (NoiseAdvanced /\ NoiseClocked(obs.prev)) =>
            emu.apu.channel_4.clock_timer = ExactClockTimer(obs.prev) - 1
    /\ (NoiseAdvanced /\ obs.prev.clock_shift >= 14) =>
            emu.apu.channel_4 = obs.prev

\* the part of C30 the code keeps: the reload value is the claimed one in
\* the 16 bits of the timer, no advance underflows a timer whose reload
\* value is not 0, and a shift of 14 or 15 never clocks the LFSR.
C30_NoiseClockTimerU16 ==
    /\ emu.panicked =>
            /\ NoiseAdvanced
            /\ emu.overflow_checks
            /\ ExactClockTimer(obs.prev) = 65536
    /\ InitialClockTimer(emu.apu.channel_4)
            = ExactClockTimer(emu.apu.channel_4) % 65536
    /\ ExactClockTimer(emu.apu.channel_4) < 65536 =>
            InitialClockTimer(emu.apu.channel_4) >= 1
    /\ (NoiseAdvanced /\ NoiseClocked(obs.prev) /\ ~emu.panicked) =>
            emu.apu.channel_4.clock_timer
                = (ExactClockTimer(obs.prev) + 65535) % 65536
    /\ (NoiseAdvanced /\ obs.prev.clock_shift >= 14) =>
            emu.apu.channel_4 = obs.prev

\* divider 4 with shift 13: the reload value 8 << 13 is 0 in 16 bits, and
\* the advance that clocks the channel wraps the timer or panics
C30_Underflow ==
    /\ NoiseAdvanced
    /\ obs.prev.clock_divider = 4
    /\ obs.prev.clock_shift = 13
    /\ NoiseClocked(obs.prev)
    /\ \/ emu.panicked
       \/ emu.apu.channel_4.clock_timer = 65535

\* divider 7 with shift 13: the reload value 14 << 13 comes out as 49152
C30_Truncated ==
    /\ NoiseAdvanced
    /\ obs.prev.clock_divider = 7
    /\ obs.prev.clock_shift = 13
    /\ NoiseClocked(obs.prev)
    /\ emu.apu.channel_4.clock_timer = 49151

\* a shift of 14 leaves the channel as it was
C30_Silenced ==
    /\ NoiseAdvanced
    /\ obs.prev.clock_shift = 14
    /\ obs.prev.clock_timer = 0
    /\ emu.apu.channel_4 = obs.prev

\* ------------------------------------- specification: the end of the boot
\* Both machines with a DMG cartridge, a CGB cartridge and a CGB cartridge
\* whose header byte has bit 2 set.  The cartridge's first two instructions
\* store to KEY0, OPRI or the boot-ROM-unmap register; the host sends
\* QuickSave and LoadQuickSave around them.

BootStores ==
    {<<REG_KEY0, 0>>, <<REG_KEY0, 4>>, <<REG_OPRI, 0>>, <<REG_OPRI, 1>>,
     <<REG_BANK, 0>>}

BootProgram(s1, s2) == Layout(<<Ldh(s1[1], s1[2]), Ldh(s2[1], s2[2])>>, 256)

BootCartridges ==
    {[machine |-> m, cgb_byte |-> b, prog |-> BootProgram(s1, s2)] :
        m \in {"Dmg", "Cgb"}, b \in {0, 128, 132},
        s1 \in BootStores, s2 \in BootStores}

BootCommands == {QuickSave(0), LoadQuickSave(0)}

InitBoot ==
    /\ \E c \in BootCartridges :
            /\ emu = InitialState(c.machine, c.cgb_byte)
            /\ prog = c.prog
    /\ sched = SchedInit
    /\ host = HostInit
    /\ obs = [sent |-> <<>>] @@ ObsInit

\* Sender::send from the host thread between two of the first ticks
BootSend ==
    /\ sched.k > 0
    /\ ~emu.panicked
    /\ Len(obs.sent) < MaxCommands
    /\ obs.ticks <= MaxSendTicks
    /\ host.queue = <<>>
    /\ \E command \in BootCommands :
            /\ host' = [host EXCEPT !.queue = Append(@, command)]
            /\ obs' = [obs EXCEPT !.at = "host",
                                  !.sent = Append(@, [command |-> command,
                                                      at |-> obs.ticks])]
    /\ UNCHANGED <<emu, sched, prog>>

BootTick == TickWith({Nop}, MaxSlots)

NextBoot ==
    \/ Boot
    \/ RunFrame
    \/ FirstScanline
    \/ BootTick
    \/ BootSend

SpecBoot == InitBoot /\ [][NextBoot]_vars

\* C31: once the boot-ROM-unmap register has been written the emulator is
\* never booting again, and no later step (a store to KEY0 or OPRI included)
\* changes the CGB/DMG compatibility mode, KEY0 or the object-priority mode
\* in OPRI.
C31_BootStateFrozen ==
    [][~emu.is_booting =>
            /\ ~emu'.is_booting
            /\ emu'.in_cgb_mode = emu.in_cgb_mode
            /\ IoRaw(emu', REG_KEY0) = IoRaw(emu, REG_KEY0)
            /\ IoRaw(emu', REG_OPRI) = IoRaw(emu, REG_OPRI)
      ]_vars

\* in CGB mode with object priority by OAM order, the cartridge has stored 4
\* to KEY0 and then 1 to OPRI
C31_Witness ==
    /\ emu.machine = "Cgb"
    /\ emu.in_cgb_mode
    /\ ~emu.is_booting
    /\ prog = BootProgram(<<REG_KEY0, 4>>, <<REG_OPRI, 1>>)
    /\ obs.store.some
    /\ obs.store.addr = REG_OPRI
    /\ obs.store.a = 1
    /\ IoRaw(emu, REG_OPRI) = 0
    /\ IoRaw(emu, REG_KEY0) = 251

\* -------------------------------------- specification: CGB palette data
\* Cartridges that, after delay nops, store an index to BCPS (OCPS) and a
\* byte to BCPD (OCPD): with delay 0 the stores execute during the OAM scan
\* of scanline 0, with 25 during Draw, with 70 during HBlank.  Half of them
\* switch the LCD off first (LCDC <- 0x11).

PaletteRegisters == {<<REG_BCPS, REG_BCPD>>, <<REG_OCPS, REG_OCPD>>}

PaletteProgram(lcd_off, delay, regs, index, v) ==
    Layout((IF lcd_off THEN <<Ldh(REG_LCDC, 17)>> ELSE <<>>)
                \o <<Pad(delay), Ldh(regs[1], index), Ldh(regs[2], v)>>, 256)

\* indices 0 and 63, index 5 with bit 6 set, and index 5 with auto-increment
PaletteIndices == {0, 63, 69, 133}

PalettePrograms ==
    {PaletteProgram(lcd_off, delay, regs, index, v) :
        lcd_off \in BOOLEAN, delay \in {0, 25, 70}, regs \in PaletteRegisters,
        index \in PaletteIndices, v \in {0, 77, 255}}

InitPalette ==
    /\ \/ emu = InitialState("Cgb", 128)
       \/ emu = InitialState("Dmg", 0)
    /\ prog \in PalettePrograms
    /\ sched = SchedInit
    /\ host = HostInit
    /\ obs = ObsInit

PaletteTick == TickWith({Nop}, MaxFrames * TICKS_PER_FRAME)

NextPalette ==
    \/ Boot
    \/ RunFrame
    \/ FirstScanline
    \/ EnterDraw
    \/ EnterHblankLoop
    \/ PaletteTick

SpecPalette == InitPalette /\ [][NextPalette]_vars

\* the last store of the CPU went to the data register of regs, in the tick
\* that has just ended, with the auto-increment bit of the index register off
PaletteStored(regs) ==
    /\ obs.store.some
    /\ obs.store.age = 0
    /\ obs.store.addr = regs[2]
    /\ ~CgbPaletteAutoIncrement(IoRaw(obs.store.dec[1], regs[1]))

\* the byte of the palette memory behind regs at the index in its low 6 bits
PaletteByte(e, regs) ==
    IF regs[1] = REG_BCPS
    THEN BackgroundPaletteByte(e, IoRaw(e, REG_BCPS) % 64)
    ELSE ObjectPaletteByte(e, IoRaw(e, REG_OCPS) % 64)

PaletteMemory(e) == <<e.cgb_background_palettes, e.cgb_object_palettes>>

\* what the store did to palette memory: the byte at the index is v when
\* VRAM was accessible, and nothing changed when it was not
PaletteWritten(regs) ==
    IF CanAccessVram(obs.store.dec[1])
    THEN PaletteByte(emu, regs) = obs.store.a
    ELSE PaletteMemory(emu) = PaletteMemory(obs.store.dec[1])

\* C32: with VRAM accessible (PPU not in Draw, or LCD off), a store of v to
\* BCPD (OCPD) with auto-increment off puts v at the palette index in the low
\* 6 bits of BCPS (OCPS) and a read of the register then returns v; with VRAM
\* not accessible a read returns 0xFF and the store leaves palette memory
\* unchanged.
C32_PaletteData ==
    \A regs \in PaletteRegisters :
        /\ PaletteStored(regs) =>
                /\ PaletteWritten(regs)
                /\ CanAccessVram(emu) =>
                        ReadAddress(emu, regs[2]) = obs.store.a
        /\ ~CanAccessVram(emu) => ReadAddress(emu, regs[2]) = 255

\* what the code does: the stores are as in C32, but a read returns 0xFF
\* while VRAM is accessible and the palette byte while it is not
C32_PaletteReadInverted ==
    \A regs \in PaletteRegisters :
        /\ PaletteStored(regs) => PaletteWritten(regs)
        /\ ReadAddress(emu, regs[2]) =
                IF CanAccessVram(emu) THEN 255 ELSE PaletteByte(emu, regs)

\* during the OAM scan 0x4D went into background palette byte 63, and BCPD
\* reads 0xFF
C32_ReadFails ==
    /\ PaletteStored(<<REG_BCPS, REG_BCPD>>)
    /\ emu.mode = "OamScan"
    /\ obs.store.a = 77
    /\ IoRaw(emu, REG_BCPS) = 63
    /\ BackgroundPaletteByte(emu, 63) = 77
    /\ ReadAddress(emu, REG_BCPD) = 255

\* during Draw with the LCD on the store to OCPD was dropped, and OCPD reads
\* the 0x00 of object palette byte 0
C32_ReadsWhileBlocked ==
    /\ PaletteStored(<<REG_OCPS, REG_OCPD>>)
    /\ ~CanAccessVram(emu)
    /\ obs.store.a = 77
    /\ IoRaw(emu, REG_OCPS) = 0
    /\ emu.cgb_object_palettes = EmptyRam
    /\ ReadAddress(emu, REG_OCPD) = 0

\* ------------------------------------ interrupts during a VRAM DMA freeze
\* Properties of SpecDma: the cartridges with the STAT interrupt of every
\* mode change enabled run general-purpose and HBlank transfers.

\* the step is a run_tick that starts with the CPU stopped for a VRAM DMA
FrozenTick ==
    /\ obs'.ticks = obs.ticks + 1
    /\ emu.is_cpu_stopped_for_vram_dma

\* the bits of IF that the step cleared
ClearedFlags == BitAndNot(IfReg(emu) % 32, IfReg(emu') % 32)

\* C33: in a tick that starts with the CPU frozen for a VRAM DMA, neither an
\* instruction nor an interrupt handler is dispatched: PC, SP and IME are
\* unchanged and no bit of IF is cleared, even with an enabled interrupt
\* pending and IME true.
C33_FrozenCpuIdle ==
    [][FrozenTick =>
            /\ obs'.last.did = "none"
            /\ emu'.pc = emu.pc
            /\ emu'.sp = emu.sp
            /\ emu'.interrupts_enabled = emu.interrupts_enabled
            /\ ClearedFlags = 0
      ]_vars

\* what the code does: no instruction is executed in a frozen tick, but a
\* pending enabled interrupt is dispatched when IME is true; apart from the
\* dispatch and the end of an EI delay the CPU state is unchanged.
C33_FrozenCpuDispatches ==
    [][FrozenTick =>
            /\ obs'.last.did # "instr"
            /\ obs'.last.did = "interrupt" <=>
                    /\ obs'.last.ready
                    /\ obs'.last.ime
                    /\ BitAnd(obs'.last.ie, obs'.last.iflags) % 32 # 0
            /\ obs'.last.did = "none" =>
                    /\ emu'.pc = emu.pc
                    /\ emu'.sp = emu.sp
                    /\ ClearedFlags = 0
                    /\ emu.interrupts_enabled => emu'.interrupts_enabled
      ]_vars

\* the STAT handler was entered in a tick of the CPU freeze of an HBlank block
C33_DispatchInFreeze ==
    /\ obs.at = "tick"
    /\ obs.last.did = "interrupt"
    /\ obs.last.pc # emu.pc
    /\ emu.pc = HandlerAddress(FLAG_LCD_STAT)
    /\ ~emu.interrupts_enabled
    /\ emu.is_cpu_stopped_for_vram_dma
    /\ emu.current_hblank_vram_dma_transfer.some
    /\ emu.current_hblank_vram_dma_transfer.in_block

\* ------------------------------------------ the EI delay and an idle CPU

\* the slot executed ei with IME false and no enable pending
FirstEi(slot) ==
    /\ slot.did = "instr"
    /\ slot.op = "ei"
    /\ ~slot.ime
    /\ slot.pending = "None"

\* C34: the delay of ei is measured in executed instructions: while ei is
\* the last thing the CPU did, IME is false, however long the CPU then sits
\* idle or frozen for a VRAM DMA block; the next thing the CPU does is to
\* execute an instruction, never to enter a handler; and IME is false until
\* that instruction has completed.
C34_EiDelayInInstructions ==
    LET h == obs.hist
        n == Len(obs.hist)
    IN  /\ (n >= 1 /\ FirstEi(h[n])) => ~emu.interrupts_enabled
        /\ (n >= 2 /\ FirstEi(h[n - 1])) =>
                /\ h[n].did = "instr"
                /\ ~h[n].ime
                /\ emu.ticks_to_next_instruction # 0 => ~emu.interrupts_enabled

\* what the code does: the same, as long as the CPU was never idle between
\* the end of ei and the next instruction
C34_EiDelayWithoutIdle ==
    LET h == obs.hist
        n == Len(obs.hist)
    IN  /\ (n >= 1 /\ FirstEi(h[n]) /\ obs.idle <= 3) => ~emu.interrupts_enabled
        /\ (n >= 2 /\ FirstEi(h[n - 1]) /\ h[n].gap = 4) =>
                /\ h[n].did = "instr"
                /\ ~h[n].ime
                /\ emu.ticks_to_next_instruction # 0 => ~emu.interrupts_enabled

\* ei ended with the last tick before an HBlank block; IME is true after the
\* first tick of the freeze, with no instruction executed since ei
C34_EnabledWhileFrozen ==
    /\ Len(obs.hist) >= 1
    /\ FirstEi(obs.hist[Len(obs.hist)])
    /\ obs.idle = 4
    /\ emu.is_cpu_stopped_for_vram_dma
    /\ emu.interrupts_enabled
    /\ emu.pc = obs.hist[Len(obs.hist)].pc + 1

\* and the STAT handler is entered in the next slot, in place of the
\* instruction that follows ei
C34_HandlerAfterEi ==
    /\ Len(obs.hist) >= 2
    /\ FirstEi(obs.hist[Len(obs.hist) - 1])
    /\ obs.hist[Len(obs.hist)].did = "interrupt"
    /\ obs.hist[Len(obs.hist)].pc = obs.hist[Len(obs.hist) - 1].pc + 1
    /\ emu.pc = HandlerAddress(FLAG_LCD_STAT)
    /\ emu.is_cpu_stopped_for_vram_dma

\* --------------------------------------------- IME inside a handler, and di
\* Properties of SpecCpu.

\* the slot executed an instruction that enables interrupts
EnablesInterrupts(slot) ==
    slot.did = "instr" /\ (slot.op = "ei" \/ slot.op = "reti")

\* the slots in h from k on executed instructions other than ei and reti
NoEnableFrom(h, k) ==
    \A j \in k..Len(h) : h[j].did = "instr" /\ ~EnablesInterrupts(h[j])

\* C35: from the entry into an interrupt handler on, IME is false for as
\* long as the handler has executed neither ei nor reti, whatever ei was
\* executed before the dispatch.
C35_ImeOffInHandler ==
    \A k \in 1..Len(obs.hist) :
        (obs.hist[k].did = "interrupt" /\ NoEnableFrom(obs.hist, k + 1))
            => ~emu.interrupts_enabled

\* what the code does: the same, unless an enable was still pending when the
\* handler was entered
C35_ImeOffUnlessPending ==
    \A k \in 1..Len(obs.hist) :
        (obs.hist[k].did = "interrupt" /\ NoEnableFrom(obs.hist, k + 1)
            /\ obs.hist[k].pending = "None")
            => ~emu.interrupts_enabled

\* ei, ei, the VBlank handler entered in place of the next instruction, and
\* IME true again at the end of the dispatch, before the handler's first
\* instruction
C35_EnabledInHandler ==
    /\ Len(obs.hist) = 3
    /\ EiCase(obs.hist[1])
    /\ SecondEi(obs.hist[2])
    /\ obs.hist[3].did = "interrupt"
    /\ obs.hist[3].pending = "AfterCurrentInstruction"
    /\ emu.pc = 64
    /\ emu.ticks_to_next_instruction = 0
    /\ emu.interrupts_enabled

\* the slot executed di
DiSlot(slot) == slot.did = "instr" /\ slot.op = "di"

\* C36: after di IME is false at every instruction boundary until an ei or a
\* reti is executed, and no handler is entered; so after ei; di.
C36_DiDisables ==
    \A k \in 1..Len(obs.hist) :
        (DiSlot(obs.hist[k]) /\ emu.ticks_to_next_instruction = 0)
            => /\ \A j \in (k + 1)..Len(obs.hist) :
                        obs.hist[j].did = "interrupt"
                            => \E i \in (k + 1)..(j - 1) :
                                    EnablesInterrupts(obs.hist[i])
               /\ NoEnableFrom(obs.hist, k + 1) => ~emu.interrupts_enabled

\* what the code does: the same, unless an enable was pending when di
\* executed
C36_DiDisablesUnlessPending ==
    \A k \in 1..Len(obs.hist) :
        (DiSlot(obs.hist[k]) /\ emu.ticks_to_next_instruction = 0
            /\ obs.hist[k].pending = "None")
            => /\ \A j \in (k + 1)..Len(obs.hist) :
                        obs.hist[j].did = "interrupt"
                            => \E i \in (k + 1)..(j - 1) :
                                    EnablesInterrupts(obs.hist[i])
               /\ NoEnableFrom(obs.hist, k + 1) => ~emu.interrupts_enabled

\* ei; di with the VBlank interrupt pending: IME is true at the end of di
C36_EnabledAfterDi ==
    /\ Len(obs.hist) = 3
    /\ EiCase(obs.hist[2])
    /\ DiSlot(obs.hist[3])
    /\ obs.hist[3].gap = 4
    /\ emu.ticks_to_next_instruction = 0
    /\ emu.interrupts_enabled

\* and the handler is entered in the slot after di
C36_HandlerAfterDi ==
    /\ Len(obs.hist) = 3
    /\ EiCase(obs.hist[1])
    /\ DiSlot(obs.hist[2])
    /\ obs.hist[3].did = "interrupt"
    /\ emu.pc = 64

\* ----------------------------------------- the destination of a VRAM DMA
\* Properties of SpecDma, whose transfers go to 0x8000 and to 0x9FF0.

\* the step started a general-purpose transfer or a block of an HBlank
\* transfer, which is when the bytes are copied
VramDmaCopyStep ==
    \/ /\ emu'.current_general_purpose_vram_dma_transfer.some
       /\ ~emu.current_general_purpose_vram_dma_transfer.some
    \/ /\ emu'.current_hblank_vram_dma_transfer.some
       /\ emu'.current_hblank_vram_dma_transfer.in_block
       /\ ~(emu.current_hblank_vram_dma_transfer.some
                /\ emu.current_hblank_vram_dma_transfer.in_block)

\* the memory outside VRAM
OutsideVram(e) == <<e.ext_ram, e.work_ram, e.oam, e.hram>>

\* C37: a VRAM DMA, general-purpose or HBlank, writes to VRAM only: the step
\* that copies its bytes changes no byte of external RAM, work RAM, OAM or
\* high RAM, whatever destination and block count the registers hold.
C37_VramDmaWritesVramOnly ==
    [][VramDmaCopyStep => OutsideVram(emu') = OutsideVram(emu)]_vars

\* what the code does: the bytes go to dest .. dest + 16 * blocks - 1 with
\* dest in 0x8000..0x9FF0, so that only VRAM and, past 0x9FFF, external RAM
\* are written
C37_VramDmaWritesUpwards ==
    [][VramDmaCopyStep =>
            /\ emu'.work_ram = emu.work_ram
            /\ emu'.oam = emu.oam
            /\ emu'.hram = emu.hram
            /\ emu'.ext_ram # emu.ext_ram =>
                    /\ Hdma5Dest(emu) = 40944
                    /\ BitAnd(IoRaw(emu', REG_HDMA5), 127) >= 1
      ]_vars

\* a general-purpose transfer of 2 blocks from 0x0200 to 0x9FF0 has put the
\* second block into external RAM at 0xA000
C37_ExternalRamWritten ==
    /\ obs.store.some
    /\ obs.store.addr = REG_HDMA5
    /\ obs.store.a = 1
    /\ obs.store.age = 0
    /\ Hdma5Dest(obs.store.dec[1]) = 40944
    /\ Hdma5Source(obs.store.dec[1]) = 512
    /\ obs.store.dec[1].ext_ram = EmptyRam
    /\ \A i \in 0..15 : Get(emu.ext_ram, i) = RomByte(528 + i)

\* --------------------------------------------- the offsets the MBC produces
\* Properties of SpecMbc: an MBC1 with a ROM of 32 or 128 banks and an MBC3
\* with one of 128, each with 4 banks of external RAM.

\* the physical offset of addr, in the ROM window or in enabled external RAM,
\* lies inside the array it indexes
OffsetInBounds(e, addr) ==
    IF addr < ROM_END
    THEN MapReadRomAddress(e.mbc, addr) < e.rom_size
    ELSE (~MapRamAddress(e.mbc, addr).is_reg)
            => MapRamAddress(e.mbc, addr).addr < e.ram_size

\* C38: after any sequence of stores to the MBC's bank registers, the offset
\* produced for a read of the ROM window or for an access to enabled external
\* RAM lies inside the cartridge's ROM or RAM array, and no access has
\* indexed out of bounds.
C38_MbcOffsetsInBounds ==
    /\ ~emu.panicked
    /\ \A addr \in MbcReadAddresses : OffsetInBounds(emu, addr)

\* what the code does: the bank numbers are masked to the width of their
\* registers, not to the size of the cartridge, so the offsets lie inside the
\* largest ROM (128 banks) and RAM (4 banks with MBC1, 8 with MBC3) that the
\* registers can address; a read that completed was inside the array.
C38_MbcOffsetsInRegisterRange ==
    /\ \A addr \in MbcReadAddresses :
        IF addr < ROM_END
        THEN MapReadRomAddress(emu.mbc, addr) < 128 * ROM_BANK_SIZE
        ELSE (~MapRamAddress(emu.mbc, addr).is_reg)
                => MapRamAddress(emu.mbc, addr).addr
                    < (IF emu.mbc.kind = "Mbc1" THEN 4 ELSE 8)
                        * SINGLE_EXTERNAL_RAM_BANK_SIZE
    /\ (obs.read.some /\ ~emu.panicked) => OffsetInBounds(emu, obs.read.addr)

\* a 512 KiB ROM behind an MBC1 with 0x01 in the upper-bits register: the
\* window at 0x4000 maps to bank 33 of 32, and the read has panicked
C38_RomReadOutOfBounds ==
    /\ emu.mbc.kind = "Mbc1"
    /\ emu.rom_size = 32 * ROM_BANK_SIZE
    /\ emu.mbc.ram_bank_num_or_upper_bits = 1
    /\ emu.mbc.rom_bank_num = 1
    /\ MapReadRomAddress(emu.mbc, 16384) = 33 * ROM_BANK_SIZE
    /\ emu.panicked

\* --------------------------------------- the PPU position and quick saves
\* Properties of SpecFrame, whose host saves in the HBlank of scanline 143
\* and loads on scanline 144.

\* run_tick is about to be called
StartOfTick == sched.k > 0 /\ ~emu.panicked

\* tick, scanline and mode agree with one another and with the schedule
PositionConsistent(e) ==
    /\ e.tick \in 0..(TICKS_PER_FRAME - 1)
    /\ e.scanline = e.tick \div TICKS_PER_SCANLINE
    /\ e.mode = DictatedMode(e.tick)

\* C39: at the start of every tick 0 <= tick < 70224, scanline = tick div
\* 456 and the mode is the one the position dictates (OAMScan, Draw, HBlank
\* by tick mod 456 on scanlines 0..143, VBlank on 144..153), also after the
\* host's QuickSave and LoadQuickSave commands.
C39_PpuPosition == StartOfTick => PositionConsistent(emu)

\* what the code does: the same in every frame in which no LoadQuickSave has
\* replaced the machine's state
C39_PpuPositionUnlessLoaded ==
    (StartOfTick /\ ~obs.loaded) => PositionConsistent(emu)

\* after the load on scanline 144 the machine is back in the HBlank of
\* scanline 143 while the frame loop has gone on to scanline 150: the tick
\* counter has reached scanline 149, the scanline register says 150 and the
\* mode is still HBlank
C39_LoadedOutOfStep ==
    /\ StartOfTick
    /\ obs.loaded
    /\ sched.i = 150
    /\ emu.scanline = 150
    /\ emu.tick \div TICKS_PER_SCANLINE = 149
    /\ emu.mode = "HBlank"

\* ------------------------------------- specification: loading a quick save

\* A cartridge of nops runs one whole frame, so that the microframe counter
\* has counted; at the start of the next frame the host sends up to
\* MaxCommands commands: turbo mode on, a save into slot 0, and loads from
\* slot 0, from slot 1 (never filled) and from a slot out of range.
LoadCommands ==
    {SetTurboMode(TRUE), QuickSave(0), LoadQuickSave(0), LoadQuickSave(1),
     LoadQuickSave(NUM_QUICK_SAVE_SLOTS)}

\* the CPU slots of one frame of nops and two more
LoadSlots == TICKS_PER_FRAME \div 4 + 2

InitLoad ==
    /\ emu = InitialState("Dmg", 0)
    /\ sched = SchedInit
    /\ host = HostInit
    /\ prog = NoProgram
    /\ obs = [sent |-> <<>>] @@ ObsInit

LoadSend ==
    /\ sched.k > 0
    /\ ~emu.panicked
    /\ sched.frames >= 1
    /\ Len(obs.sent) < MaxCommands
    /\ obs.frame_ticks <= MaxSendTicks
    /\ host.queue = <<>>
    /\ \E command \in LoadCommands :
            /\ host' = [host EXCEPT !.queue = Append(@, command)]
            /\ obs' = [obs EXCEPT !.at = "host",
                                  !.sent = Append(@, [command |-> command,
                                                      at |-> obs.ticks])]
    /\ UNCHANGED <<emu, sched, prog>>

LoadTick == TickWith({Nop}, LoadSlots)

NextLoad ==
    \/ Boot
    \/ RunFrame
    \/ RunScanline
    \/ EnterDraw
    \/ EnterHblankLoop
    \/ NextScanline
    \/ EndFrame
    \/ LoadTick
    \/ LoadSend

SpecLoad == InitLoad /\ [][NextLoad]_vars

\* -------------------------------------------- properties of load_quick_save

\* the state the snapshot leaves out: the options, the handles of the
\* command channel, the framebuffer, the audio sink and the save file path,
\* the microframe counter and the turbo-mode setting
HostSideState(e) ==
    [options |-> e.options,
     input_adapter |-> e.input_adapter,
     output_buffer |-> e.output_buffer,
     audio_output |-> e.audio_output,
     save_file_path |-> e.save_file_path,
     microframe |-> e.microframe,
     in_turbo_mode |-> e.in_turbo_mode]

\* the same without the turbo-mode setting
RestoredState(e) ==
    [options |-> e.options,
     input_adapter |-> e.input_adapter,
     output_buffer |-> e.output_buffer,
     audio_output |-> e.audio_output,
     save_file_path |-> e.save_file_path,
     microframe |-> e.microframe]

\* a run_tick whose handle_inputs takes one LoadQuickSave from the channel
LoadHandled ==
    /\ sched.k > 0
    /\ Len(host.queue) = 1
    /\ host.queue[1].kind = "LoadQuickSave"
    /\ host'.queue = <<>>

\* the slot of that command is out of range or holds no snapshot
LoadsNothing ==
    \/ host.queue[1].arg >= NUM_QUICK_SAVE_SLOTS
    \/ host.saves[host.queue[1].arg] = NoSnapshot

\* the state after the same run_tick with nothing in the channel
TickWithoutCommand ==
    RunTickFrom(BeforeCpuSlot(emu, host.saves, <<>>), Nop).e

\* C40: a LoadQuickSave replaces only emulated-machine state: across the
\* run_tick that handles it the options, the handles, the save file, the
\* microframe counter and the turbo-mode setting are what they were, and a
\* load from an empty or out-of-range slot leaves the emulator exactly as
\* the tick alone would.
C40_LoadKeepsHostState ==
    [][LoadHandled =>
        /\ HostSideState(emu') = HostSideState(emu)
        /\ host'.saves = host.saves
        /\ LoadsNothing => emu' = TickWithoutCommand]_vars

\* what the code keeps: everything of the above but the turbo-mode setting,
\* which a load from a filled slot switches off
C40_LoadKeepsAllButTurbo ==
    [][LoadHandled =>
        /\ RestoredState(emu') = RestoredState(emu)
        /\ host'.saves = host.saves
        /\ LoadsNothing => emu' = TickWithoutCommand
        /\ ~LoadsNothing => ~emu'.in_turbo_mode]_vars

\* turbo mode switched on, a save and a load of it handled in the frame
\* after the first: the microframe counter is kept, turbo mode is off
C40_TurboLost ==
    /\ Len(obs.sent) = 3
    /\ obs.sent[1].command = SetTurboMode(TRUE)
    /\ obs.sent[2].command = QuickSave(0)
    /\ obs.sent[3].command = LoadQuickSave(0)
    /\ host.queue = <<>>
    /\ emu.microframe = TURBO_MULTIPLIER
    /\ ~emu.in_turbo_mode

\* a load from the empty slot 1 handled with turbo mode on: nothing changed
C40_EmptySlotLoaded ==
    /\ Len(obs.sent) = 2
    /\ obs.sent[1].command = SetTurboMode(TRUE)
    /\ obs.sent[2].command = LoadQuickSave(1)
    /\ host.queue = <<>>
    /\ emu.microframe = TURBO_MULTIPLIER
    /\ emu.in_turbo_mode

====
